---- MODULE Spec2Model ----
(***************************************************************************)
(* Identity reconciliation of the auth service: the better-auth            *)
(* `hooks.before` callback (config/auth.ts) and the legacy-store client    *)
(* EatzyUserCheckService (services/eatzy-user-check.ts), as a state        *)
(* machine over the legacy store, the local user/account tables and the    *)
(* requests in flight.  Every `await` of the hook is a step of its own, so *)
(* that handlers of different requests interleave as on the event loop.    *)
(* The token verification endpoint POST /api/verify (server.ts) is a       *)
(* second machine over the session table, under its own specification.     *)
(***************************************************************************)
EXTENDS Integers, Sequences, FiniteSets, TLC

\* ------------------------------------------------------------------ bounds
MaxRequests == 2
MaxPasswordChanges == 1
MaxCrashes == 1
MaxTokenLen == 3

\* ------------------------------------------------------------ value sets
Emails == {"a@x.com"}
\* the same addresses as a client may spell them
CasedEmails == {"a@x.com", "A@x.com"}
NoEmail == ""
Passwords == {"p1", "p2"}
Salts == {"s1", "s2"}
Slots == {"h1", "h2"}
SlotOrder == [r \in Slots |-> IF r = "h1" THEN 1 ELSE 2]
NoUser == "no_user"
NoRow == 0

VARIABLES
    legacy,      \* legacy store: email -> its credential, or NoUser
    users,       \* local table "user": set of rows
    accounts,    \* local table "account": set of rows
    nextId,      \* source of fresh ids (crypto.randomUUID never repeats)
    req,         \* slot -> the request a handler is running, with its locals
    last,        \* the request that finished in the last step, as it ended
    started,     \* number of requests accepted so far
    pwChanges,   \* number of credential changes made in the legacy store
    lastSignUp,  \* email -> id of the principal its last successful sign-up made
    lastSignIn,  \* email -> its last successful sign-in, and the hash stored as it ended
    crashes,     \* number of times the process stopped with requests in flight
    sessions,    \* local table "session": token -> state of the session it keys
    vreq,        \* the /api/verify request being handled, with its locals
    store,       \* table "configuration": key -> its row, or NoConfig
    storeUp,     \* whether the configuration store answers
    cache,       \* ConfigService.cache and ConfigService.lastCacheUpdate
    now,         \* Date.now()
    enh,         \* EnhancedEnv.initialized and the due time of its refresh timer
    ops,         \* slot -> the configuration request or task in flight
    clast,       \* the configuration request that finished in the last step
    opsStarted,  \* number of configuration requests and tasks started so far
    settled,     \* key -> the value of its last completed set, no other set since
    outage,      \* whether a reload has failed since the store went down
    odec,        \* the origin decision being made, with its inputs
    naming       \* the derivation of a name being made, with its inputs

vars == <<legacy, users, accounts, nextId, req, last, started, pwChanges,
          lastSignUp, lastSignIn, crashes, sessions, vreq,
          store, storeUp, cache, now, enh, ops, clast, opsStarted, settled,
          outage, odec, naming>>

configVars == <<store, storeUp, cache, now, enh, ops, clast, opsStarted,
                settled, outage, odec, naming>>

\* ------------------------------------------------------- credential hashes
\* A hash is the sequence of the parts of its text.  hashPassword gives
\* "<salt>:<key>", the key derived from salt and password; a pre-migration
\* hash is a bare digest with no ':' in it.
HashPassword(p, salt) == <<salt, ":", p>>

PreMigrationHash(p) == <<"md5", p>>

NullHash == <<>>

Includes(h, c) == \E i \in 1..Len(h) : h[i] = c

\* (variant: a hook that re-hashes on every sign-in)
NeedsRehashAlways(currentHash) == TRUE

\* currentHash && !currentHash.includes(':')

NeedsRehash(currentHash) == currentHash # NullHash /\ ~Includes(currentHash, ":")

\* the native sign-in's comparison of a credential with a stored hash
VerifyPassword(h, p) == Len(h) = 3 /\ h[2] = ":" /\ h[3] = p

\* ------------------------------------------------------------ legacy store
CallOutcomes == {"ok", "http_error", "network_error"}

\* the legacy store keys its users by the address whatever its letter case
Lower(e) == IF e = "A@x.com" THEN "a@x.com" ELSE e

LegacyUser(e) == legacy[Lower(e)]

\* POST /account/check-user as the legacy store answers it
LegacyCheckUser(e, outcome) ==
    [kind |-> outcome,
     exists |-> outcome = "ok" /\ LegacyUser(e) # NoUser,
     hasUser |-> outcome = "ok" /\ LegacyUser(e) # NoUser]

\* POST /account/authorize as the legacy store answers it: a token for the
\* stored credential, 401 for any other
LegacyAuthorize(e, p, outcome) ==
    IF outcome = "ok" /\ LegacyUser(e) # p
    THEN [kind |-> "http_error", hasToken |-> FALSE]
    ELSE [kind |-> outcome, hasToken |-> outcome = "ok"]

\* EatzyUserCheckService.checkUserExists

CheckUserExists(resp) ==
    IF resp.kind = "network_error"
    THEN [exists |-> FALSE, error |-> "status_0"]
    ELSE IF resp.kind = "http_error"
    THEN [exists |-> FALSE, error |-> "status_http"]
    ELSE IF resp.exists /\ resp.hasUser
    THEN [exists |-> TRUE, error |-> "none"]
    ELSE [exists |-> FALSE, error |-> "none"]

\* EatzyUserCheckService.verifyExistingUser
VerifyExistingUser(resp) ==
    IF resp.kind = "network_error"
    THEN [valid |-> FALSE, error |-> "status_0"]
    ELSE IF resp.kind = "http_error"
    THEN [valid |-> FALSE, error |-> "status_http"]
    ELSE IF resp.hasToken
    THEN [valid |-> TRUE, error |-> "none"]
    ELSE [valid |-> FALSE, error |-> "none"]

\* EatzyUserCheckService.createEatzyUser; resp.text is the body of a failed
\* response or the message of the network error
CreateEatzyUser(resp) ==
    IF resp.kind = "network_error"
    THEN [created |-> FALSE, error |-> resp.text]
    ELSE IF resp.kind = "http_error"
    THEN [created |-> FALSE, error |-> resp.text]
    ELSE IF resp.created /\ resp.hasUser
    THEN [created |-> TRUE, error |-> ""]
    ELSE [created |-> FALSE, error |-> "User creation response invalid"]

\* --------------------------------------------------------------- requests
NoResult == [error |-> "none", detail |-> ""]

Proceeds == [error |-> "proceed", detail |-> ""]

Thrown(e, d) == [error |-> e, detail |-> d]

NoSignIn ==
    [userId |-> NoRow, hash |-> NullHash, password |-> "p1", moved |-> FALSE,
     alone |-> FALSE]

NoSignUp == [userId |-> NoRow, password |-> "p1", legacyOnly |-> FALSE]

\* A handler's request, the locals of the hook, and a record of what the
\* handler did (read by the properties only).
IdleReq ==
    [pc |-> "idle", kind |-> "none", email |-> NoEmail, password |-> "p1",
     userId |-> NoRow, accountId |-> NoRow, currentHash |-> NullHash,
     hook |-> NoResult, outcome |-> "none",
     checkCall |-> "none", legacyHad |-> FALSE, authorizeCall |-> "none",
     createCall |-> "none", createReported |-> FALSE, createText |-> "",
     authorizeCalls |-> 0, createCalls |-> 0, reads |-> 0, writes |-> 0,
     madeUser |-> FALSE, rehashed |-> FALSE, hashAfter |-> NullHash,
     quiet |-> FALSE, prevSignUp |-> NoSignUp, prevSignIn |-> NoSignIn,
     ticket |-> 0, hadUser |-> FALSE]

\* a handler goes on with its request, or ends it and is free again
Set(r, rec) ==
    IF rec.pc = "done"
    THEN req' = [req EXCEPT ![r] = IdleReq] /\ last' = rec
    ELSE req' = [req EXCEPT ![r] = rec] /\ last' = IdleReq

\* the request ran with no other request in flight from its start to now
Alone(rec) == rec.quiet /\ started = rec.ticket

\* the hook throws: the request is over, the native flow never runs
Throw(rec, e, d) ==
    [rec EXCEPT !.pc = "done", !.hook = Thrown(e, d), !.outcome = "hook_threw"]

\* the hook returns: better-auth goes on with its native handler
Return(rec) == [rec EXCEPT !.pc = "native", !.hook = Proceeds]

\* ------------------------------------------------------- string operations
\* Strings are sequences of pieces (characters, or words no one of which is
\* part of another), so the operations act on pieces.
\* s.startsWith(p)
StartsWith(s, p) == Len(p) <= Len(s) /\ SubSeq(s, 1, Len(p)) = p

\* s.endsWith(p)
EndsWith(s, p) ==
    Len(p) <= Len(s) /\ SubSeq(s, Len(s) - Len(p) + 1, Len(s)) = p

\* s.includes(p)
IncludesString(s, p) ==
    \E i \in 1..(Len(s) - Len(p) + 1) : SubSeq(s, i, i + Len(p) - 1) = p

\* the white space of the strings modelled: the blank and the tab
WhiteSpace == {" ", "\t"}

\* s.trim()
RECURSIVE TrimStart(_)
TrimStart(s) ==
    IF s # <<>> /\ Head(s) \in WhiteSpace THEN TrimStart(Tail(s)) ELSE s

RECURSIVE TrimEnd(_)
TrimEnd(s) ==
    IF s # <<>> /\ s[Len(s)] \in WhiteSpace
    THEN TrimEnd(SubSeq(s, 1, Len(s) - 1))
    ELSE s

Trim(s) == TrimEnd(TrimStart(s))

\* s.split(','): the list of the parts between the commas ('' gives [''])
RECURSIVE Split(_)
Split(s) ==
    IF \A i \in 1..Len(s) : s[i] # ","
    THEN <<s>>
    ELSE LET i == CHOOSE j \in 1..Len(s) :
                      s[j] = "," /\ \A m \in 1..(j - 1) : s[m] # ","
         IN  <<SubSeq(s, 1, i - 1)>> \o Split(SubSeq(s, i + 1, Len(s)))

\* ---------------------------------------------------- /api/verify: values
\* A token is the sequence of its characters.
TokenChars == {"%", "2", "5"}

RECURSIVE SeqsUpTo(_, _)
SeqsUpTo(S, n) ==
    IF n = 0 THEN {<<>>}
    ELSE LET shorter == SeqsUpTo(S, n - 1)
         IN  shorter \cup {Append(t, c) : t \in shorter, c \in S}

Tokens == SeqsUpTo(TokenChars, MaxTokenLen)

\* the session table: the tokens that may key a session, the state of each
\* and the row and Principal it stands for
SessionKeys == {<<"%">>, <<"%", "2", "5">>, <<"5">>}

SessionStates == {"absent", "live", "expired"}

NoSessions == [k \in SessionKeys |-> "absent"]

NoPrincipal == [id |-> 0, email |-> "", name |-> "", emailVerified |-> FALSE]

NoSessionRow == [id |-> 0, userId |-> 0, expiresAt |-> "never"]

NoSessionData == [user |-> NoPrincipal, session |-> NoSessionRow]

SessionDataOf(k) ==
    IF k = <<"%">>
    THEN [user |-> [id |-> 1, email |-> "a@x.com", name |-> "Ann",
                    emailVerified |-> TRUE],
          session |-> [id |-> 11, userId |-> 1, expiresAt |-> "later"]]
    ELSE IF k = <<"%", "2", "5">>
    THEN [user |-> [id |-> 2, email |-> "", name |-> "Bob",
                    emailVerified |-> FALSE],
          session |-> [id |-> 12, userId |-> 2, expiresAt |-> "later"]]
    ELSE [user |-> [id |-> 1, email |-> "a@x.com", name |-> "Ann",
                    emailVerified |-> TRUE],
          session |-> [id |-> 13, userId |-> 1, expiresAt |-> "later"]]

NoResponse == [status |-> 0, valid |-> FALSE, error |-> "",
               user |-> NoPrincipal, username |-> "", session |-> NoSessionRow]

\* the handler's request, its locals and a record of what it did
IdleVerify ==
    [pc |-> "idle", token |-> <<>>, needsDecoding |-> FALSE,
     decodedToken |-> <<>>, response |-> NoResponse,
     lookups |-> <<>>, lookupFailed |-> FALSE,
     fixed |-> TRUE, repeat |-> FALSE, prev |-> NoResponse,
     prevLookupFailed |-> FALSE, issuedFor |-> <<>>]

\* ------------------------------------------------- configuration: values
MaxOps == 2
MaxTicks == 1

\* private static readonly CACHE_TTL = 30 * 1000
CACHE_TTL == 30000

\* private static readonly REFRESH_INTERVAL = 30 * 1000
REFRESH_INTERVAL == 30000

\* the clock is read in steps of this many milliseconds, from a time of day
\* that is no less than CACHE_TTL after the epoch
TickMs == 30000

StartTime == 30000

ConfigKeys == {"TRUSTED_ORIGINS", "ALLOWED_DOMAIN_PATTERNS"}

\* A configuration value is a comma-separated list, kept as the sequence of
\* its items; '' is the empty sequence.
Items == {"a", "b"}

EmptyValue == <<>>

Undefined == <<"undefined">>

PutValues == {<<"b">>}

\* if (value), value || other
Truthy(v) == v # Undefined /\ v # EmptyValue

\* a key of the configuration table: the number of rows that hold it, and
\* the columns of the row the queries return
NoConfig ==
    [value |-> Undefined, isSecret |-> FALSE, category |-> "none", rows |-> 0]

NoConfigs == [k \in ConfigKeys |-> NoConfig]

\* (variant: insert(...).values(...) without its conflict clause, on a table
\* without the unique index)
InsertRow(old, value, isSecret, category) ==
    [value |-> value, isSecret |-> isSecret, category |-> category,
     rows |-> old.rows + 1]

\* insert(...).values(...).onConflictDoUpdate({target: configuration.key}):
\* a new row when no row holds the key, else the row is updated in place
Upsert(old, value, isSecret, category) ==
    [value |-> value, isSecret |-> isSecret, category |-> category,
     rows |-> IF old.rows = 0 THEN 1 ELSE old.rows]

\* (env as any)[key]: both keys have a default in the process environment
EnvOf(key) == IF key \in ConfigKeys THEN <<"e">> ELSE Undefined

\* env.BETTER_AUTH_SECRET, and the Authorization headers a caller may send
AdminSecret == <<"secret">>

AuthHeaders ==
    {<<>>, <<"Basic ", "secret">>, <<"Bearer ", "secret">>,
     <<"Bearer ", "wrong">>, <<"Bearer ", "Bearer ", "secret">>}

EmptyCache == [map |-> [k \in ConfigKeys |-> Undefined], lastCacheUpdate |-> 0]

Unsettled == <<"unsettled">>

OpSlots == {"c1", "c2"}

OpOrder == [o \in OpSlots |-> IF o = "c1" THEN 1 ELSE 2]

\* a request or task, the locals of its handler and of the ConfigService
\* call it is in, and a record of what it did (read by the properties only)
Categories == {"", "general", "cors"}

\* EnhancedEnv before initialize: no flag, no interval handle, no timer
NoEnv ==
    [initialized |-> FALSE, refreshInterval |-> FALSE, timers |-> 0,
     timerDue |-> 0]

IdleOp ==
    [pc |-> "idle", route |-> "none", key |-> "TRUSTED_ORIGINS",
     value |-> Undefined, isSecret |-> FALSE, category |-> "none",
     authHeader |-> <<>>, origin |-> "a", stage |-> 0,
     row |-> NoConfig, configs |-> NoConfigs, dbFailed |-> FALSE,
     status |-> 0, result |-> Undefined,
     expect |-> Unsettled, hadCached |-> Undefined, staleAtBegin |-> FALSE,
     afterFailedLoad |-> FALSE, listed |-> {}, missed |-> FALSE,
     stoppedOver |-> FALSE]

NoDecision ==
    [pc |-> "idle", fn |-> "none", origin |-> <<>>,
     trustedStored |-> <<>>, allowedStored |-> <<>>,
     trustedFailed |-> FALSE, patternsFailed |-> FALSE,
     trustedOriginsConfig |-> <<>>, allowedOriginsConfig |-> <<>>,
     allowed |-> FALSE]

\* no name is being derived
NoNaming ==
    [pc |-> "idle", fn |-> "none", name |-> <<>>, email |-> <<>>,
     legacyFirst |-> <<>>, legacyLast |-> <<>>,
     firstname |-> <<>>, lastname |-> <<>>, fullName |-> <<>>]

\* the configuration service before anything was asked of it
ConfigIdle ==
    /\ store = NoConfigs
    /\ storeUp = TRUE
    /\ cache = EmptyCache
    /\ now = StartTime
    /\ enh = NoEnv
    /\ ops = [o \in OpSlots |-> IdleOp]
    /\ clast = IdleOp
    /\ opsStarted = 0
    /\ settled = [k \in ConfigKeys |-> Unsettled]
    /\ outage = FALSE
    /\ odec = NoDecision
    /\ naming = NoNaming

\* ------------------------------------------------------------------- Init
InitLocal ==
    \/ /\ users = {}
       /\ accounts = {}
       /\ nextId = 1
    \/ \E p \in Passwords :
          /\ legacy["a@x.com"] # NoUser
          /\ users = {[id |-> 1, email |-> "a@x.com", emailVerified |-> TRUE]}
          /\ accounts = {[id |-> 2, accountId |-> "a@x.com",
                          providerId |-> "credential", userId |-> 1,
                          password |-> PreMigrationHash(p)]}
          /\ nextId = 3

Init ==
    /\ legacy \in [Emails -> Passwords \cup {NoUser}]
    /\ InitLocal
    /\ req = [r \in Slots |-> IdleReq]
    /\ last = IdleReq
    /\ started = 0
    /\ pwChanges = 0
    /\ lastSignUp = [e \in Emails |-> NoSignUp]
    /\ lastSignIn = [e \in Emails |-> NoSignIn]
    /\ crashes = 0
    /\ sessions = NoSessions
    /\ vreq = IdleVerify
    /\ ConfigIdle

\* ------------------------------------------------------- hooks.before entry
\* A request arrives at a free handler; the hook reads ctx.path and ctx.body.
FirstFree(r) ==
    /\ req[r].pc = "idle"
    /\ \A q \in Slots : SlotOrder[q] < SlotOrder[r] => req[q].pc # "idle"

HookBegin(r) ==
    /\ FirstFree(r)
    /\ started < MaxRequests
    /\ \E k \in {"signup", "signin"}, e \in Emails, p \in Passwords :
          Set(r, [IdleReq EXCEPT !.pc = "check", !.kind = k, !.email = e,
                     !.password = p,
                     !.quiet = \A q \in Slots : req[q].pc = "idle",
                     !.prevSignUp = lastSignUp[e],
                     !.prevSignIn = lastSignIn[e],
                     !.ticket = started + 1,
                     !.hadUser = \E u \in users : u.email = e])
    /\ started' = started + 1
    /\ UNCHANGED <<crashes, sessions, vreq>>
    /\ UNCHANGED configVars
    /\ UNCHANGED <<legacy, users, accounts, nextId, pwChanges, lastSignUp, lastSignIn>>

\* if (!email) return: the hook lets a body without email through untouched;
\* the native handler then refuses the body (no store is touched).
HookNoEmail(r) ==
    /\ FirstFree(r)
    /\ started < MaxRequests
    /\ \E k \in {"signup", "signin"}, p \in Passwords :
          Set(r, [Return([IdleReq EXCEPT !.kind = k, !.password = p])
                     EXCEPT !.pc = "done", !.outcome = "native_failed"])
    /\ started' = started + 1
    /\ UNCHANGED <<crashes, sessions, vreq>>
    /\ UNCHANGED configVars
    /\ UNCHANGED <<legacy, users, accounts, nextId, pwChanges, lastSignUp, lastSignIn>>

\* ------------------------------------------------------------- /sign-up/email
\* if (existsResult.exists) throw
SignUpRejects(existsResult) == existsResult.exists

\* (variant: a hook that does not look at createResult.created)
SignUpAbortsNever(createResult) == FALSE

\* if (!createResult.created) throw

SignUpAborts(createResult) == ~createResult.created

\* (variant: a hook that drops createResult.error from its message)
CreateFailedDetailGeneric(createResult) == "Unable to create account"

\* `Registration failed: ${createResult.error || 'Unable to create account'}`

CreateFailedDetail(createResult) ==
    IF createResult.error # "" THEN createResult.error ELSE "Unable to create account"

SignUpCheck(r) ==
    /\ req[r].pc = "check"
    /\ req[r].kind = "signup"
    /\ \E o \in CallOutcomes :
          LET existsResult == CheckUserExists(LegacyCheckUser(req[r].email, o))
              rec == [req[r] EXCEPT !.checkCall = o,
                         !.legacyHad = LegacyUser(req[r].email) # NoUser]
          IN  IF SignUpRejects(existsResult)
              THEN Set(r, Throw(rec, "AlreadyExists", req[r].email))
              ELSE Set(r, [rec EXCEPT !.pc = "create"])
    /\ UNCHANGED <<crashes, sessions, vreq>>
    /\ UNCHANGED configVars
    /\ UNCHANGED <<legacy, users, accounts, nextId, started, pwChanges,
                   lastSignUp, lastSignIn>>

\* POST /account/create-user as the legacy store answers it.  A request lost
\* on the network may or may not have been carried out.
CreateOutcomes == {"ok", "ok_not_created", "http_error", "http_error_empty",
                   "network_error", "network_error_after"}

LegacyCreates(e, o) == o \in {"ok", "network_error_after"} /\ LegacyUser(e) = NoUser

LegacyCreateUser(e, o) ==
    IF o \in {"network_error", "network_error_after"}
    THEN [kind |-> "network_error", created |-> FALSE, hasUser |-> FALSE,
          text |-> "fetch failed"]
    ELSE IF o = "http_error"
    THEN [kind |-> "http_error", created |-> FALSE, hasUser |-> FALSE,
          text |-> "server error"]
    ELSE IF o = "http_error_empty"
    THEN [kind |-> "http_error", created |-> FALSE, hasUser |-> FALSE, text |-> ""]
    ELSE IF o = "ok" /\ LegacyUser(e) # NoUser
    THEN [kind |-> "http_error", created |-> FALSE, hasUser |-> FALSE,
          text |-> "user exists"]
    ELSE [kind |-> "ok", created |-> o = "ok", hasUser |-> o = "ok", text |-> ""]

SignUpCreate(r) ==
    /\ req[r].pc = "create"
    /\ req[r].kind = "signup"
    /\ \E o \in CreateOutcomes :
          LET e == req[r].email
              resp == LegacyCreateUser(e, o)
              createResult == CreateEatzyUser(resp)
              rec == [req[r] EXCEPT !.createCall = resp.kind,
                         !.createReported = resp.created, !.createText = resp.text,
                         !.createCalls = @ + 1]
          IN  /\ legacy' = IF LegacyCreates(e, o)
                           THEN [legacy EXCEPT ![e] = req[r].password]
                           ELSE legacy
              /\ IF SignUpAborts(createResult)
                 THEN Set(r, Throw(rec, "LegacyCreateFailed",
                                   CreateFailedDetail(createResult)))
                 ELSE Set(r, Return(rec))
    /\ UNCHANGED <<crashes, sessions, vreq>>
    /\ UNCHANGED configVars
    /\ UNCHANGED <<users, accounts, nextId, started, pwChanges, lastSignUp, lastSignIn>>

\* The local store's own sign-up, which runs after the hook returned: it
\* refuses an email it already holds and else makes the Principal and its
\* password CredentialRecord.
NativeSignUp(r) ==
    /\ req[r].pc = "native"
    /\ req[r].kind = "signup"
    /\ IF \E u \in users : u.email = req[r].email
       THEN /\ Set(r, [req[r] EXCEPT !.pc = "done", !.outcome = "native_failed"])
            /\ UNCHANGED <<users, accounts, nextId, lastSignUp>>
       ELSE \E s \in Salts :
            /\ users' = users \cup {[id |-> nextId, email |-> req[r].email,
                                     emailVerified |-> FALSE]}
            /\ accounts' = accounts \cup
                   {[id |-> nextId + 1, accountId |-> req[r].email,
                     providerId |-> "credential", userId |-> nextId,
                     password |-> HashPassword(req[r].password, s)]}
            /\ nextId' = nextId + 2
            /\ lastSignUp' = [lastSignUp EXCEPT ![req[r].email] =
                                 [userId |-> nextId, password |-> req[r].password,
                                  legacyOnly |-> FALSE]]
            /\ Set(r, [req[r] EXCEPT !.pc = "done", !.outcome = "ok",
                                     !.userId = nextId, !.writes = @ + 2])
    /\ UNCHANGED <<crashes, sessions, vreq>>
    /\ UNCHANGED configVars
    /\ UNCHANGED <<legacy, started, pwChanges, lastSignIn>>

\* ------------------------------------------------------------- /sign-in/email
\* (variant: a hook that goes on whatever the existence check said)
SignInFindsAlways(existsResult) == TRUE

\* if (existsResult.exists) { ... } else throw

SignInFinds(existsResult) == existsResult.exists

\* (variant: a hook that does not look at verifyResult.valid)
SignInRefusesNever(verifyResult) == FALSE

\* (variant: a hook that refuses every credential)
SignInRefusesAlways(verifyResult) == TRUE

\* if (!verifyResult.valid) throw

SignInRefuses(verifyResult) == ~verifyResult.valid

SignInCheck(r) ==
    /\ req[r].pc = "check"
    /\ req[r].kind = "signin"
    /\ \E o \in CallOutcomes :
          LET existsResult == CheckUserExists(LegacyCheckUser(req[r].email, o))
              rec == [req[r] EXCEPT !.checkCall = o,
                         !.legacyHad = LegacyUser(req[r].email) # NoUser]
          IN  IF SignInFinds(existsResult)
              THEN Set(r, [rec EXCEPT !.pc = "verify"])
              ELSE Set(r, Throw(rec, "NotRegistered", ""))
    /\ UNCHANGED <<crashes, sessions, vreq>>
    /\ UNCHANGED configVars
    /\ UNCHANGED <<legacy, users, accounts, nextId, started, pwChanges,
                   lastSignUp, lastSignIn>>

SignInVerify(r) ==
    /\ req[r].pc = "verify"
    /\ \E o \in CallOutcomes :
          LET resp == LegacyAuthorize(req[r].email, req[r].password, o)
              verifyResult == VerifyExistingUser(resp)
              rec == [req[r] EXCEPT !.authorizeCall = resp.kind,
                         !.authorizeCalls = @ + 1]
          IN  IF SignInRefuses(verifyResult)
              THEN Set(r, Throw(rec, "InvalidCredentials", ""))
              ELSE Set(r, [rec EXCEPT !.pc = "selectUser"])
    /\ UNCHANGED <<crashes, sessions, vreq>>
    /\ UNCHANGED configVars
    /\ UNCHANGED <<legacy, users, accounts, nextId, started, pwChanges,
                   lastSignUp, lastSignIn>>

\* (variant: a lookup that never matches a row)
UsersByEmailNone(email) == {}

\* db.select().from(user).where(eq(user.email, email)).limit(1)

UsersByEmail(email) == {u \in users : u.email = email}

SignInSelectUser(r) ==
    /\ req[r].pc = "selectUser"
    /\ LET rec == [req[r] EXCEPT !.reads = @ + 1]
       IN  IF UsersByEmail(req[r].email) = {}
           THEN Set(r, [rec EXCEPT !.pc = "insertUser"])
           ELSE \E u \in UsersByEmail(req[r].email) :
                   Set(r, [rec EXCEPT !.pc = "selectAccount", !.userId = u.id])
    /\ UNCHANGED <<crashes, sessions, vreq>>
    /\ UNCHANGED configVars
    /\ UNCHANGED <<legacy, users, accounts, nextId, started, pwChanges,
                   lastSignUp, lastSignIn>>

\* (variant: a user table without the unique index)
EmailTakenNever(email) == FALSE

\* the unique index on user.email, the address compared whatever its case

EmailTaken(email) == \E u \in users : Lower(u.email) = Lower(email)

\* db.insert(user).values({...}); a violated unique index makes the insert
\* throw, and the hook's catch rethrows
SignInInsertUser(r) ==
    /\ req[r].pc = "insertUser"
    /\ IF EmailTaken(req[r].email)
       THEN /\ Set(r, Throw(req[r], "DbError", "user_email_unique"))
            /\ UNCHANGED <<users, nextId>>
       ELSE /\ users' = users \cup {[id |-> nextId, email |-> req[r].email,
                                     emailVerified |-> TRUE]}
            /\ nextId' = nextId + 1
            /\ Set(r, [req[r] EXCEPT !.pc = "selectAccount", !.userId = nextId,
                          !.writes = @ + 1, !.madeUser = TRUE])
    /\ UNCHANGED <<crashes, sessions, vreq>>
    /\ UNCHANGED configVars
    /\ UNCHANGED <<legacy, accounts, started, pwChanges, lastSignUp, lastSignIn>>

\* db.select().from(account).where(and(eq(account.userId, userId),
\*   eq(account.providerId, 'credential'))).limit(1)
CredentialAccounts(userId) ==
    {a \in accounts : a.userId = userId /\ a.providerId = "credential"}

SignInSelectAccount(r) ==
    /\ req[r].pc = "selectAccount"
    /\ LET rec == [req[r] EXCEPT !.reads = @ + 1]
       IN  IF CredentialAccounts(req[r].userId) = {}
           THEN Set(r, [rec EXCEPT !.pc = "insertAccount"])
           ELSE \E a \in CredentialAccounts(req[r].userId) :
                   LET got == [rec EXCEPT !.accountId = a.id,
                                  !.currentHash = a.password]
                   IN  IF NeedsRehash(a.password)
                       THEN Set(r, [got EXCEPT !.pc = "updateAccount"])
                       ELSE Set(r, Return([got EXCEPT !.hashAfter = a.password]))
    /\ UNCHANGED <<crashes, sessions, vreq>>
    /\ UNCHANGED configVars
    /\ UNCHANGED <<legacy, users, accounts, nextId, started, pwChanges,
                   lastSignUp, lastSignIn>>

\* hashPassword(password), then db.insert(account).values({...}); the hash
\* is computed from the request alone, so the two awaits are one step
SignInInsertAccount(r) ==
    /\ req[r].pc = "insertAccount"
    /\ \E s \in Salts :
          LET h == HashPassword(req[r].password, s)
          IN  /\ accounts' = accounts \cup
                     {[id |-> nextId, accountId |-> req[r].email,
                       providerId |-> "credential", userId |-> req[r].userId,
                       password |-> h]}
              /\ Set(r, Return([req[r] EXCEPT !.accountId = nextId,
                                   !.hashAfter = h, !.writes = @ + 1]))
    /\ nextId' = nextId + 1
    /\ UNCHANGED <<crashes, sessions, vreq>>
    /\ UNCHANGED configVars
    /\ UNCHANGED <<legacy, users, started, pwChanges, lastSignUp, lastSignIn>>

\* hashPassword(password), then
\* db.update(account).set({password, updatedAt}).where(eq(account.id, ...))
SignInUpdateAccount(r) ==
    /\ req[r].pc = "updateAccount"
    /\ \E s \in Salts :
          LET h == HashPassword(req[r].password, s)
          IN  /\ accounts' = {IF a.id = req[r].accountId
                              THEN [a EXCEPT !.password = h] ELSE a : a \in accounts}
              /\ Set(r, Return([req[r] EXCEPT !.hashAfter = h, !.writes = @ + 1,
                                   !.rehashed = TRUE]))
    /\ UNCHANGED <<crashes, sessions, vreq>>
    /\ UNCHANGED configVars
    /\ UNCHANGED <<legacy, users, nextId, started, pwChanges, lastSignUp, lastSignIn>>

\* the hash the account row with this id holds now
StoredHash(id) == (CHOOSE a \in accounts : a.id = id).password

\* The local store's own sign-in, which runs after the hook returned: it
\* finds the Principal by email and compares the credential with the hash of
\* its password CredentialRecord.
NativeSignIn(r) ==
    /\ req[r].pc = "native"
    /\ req[r].kind = "signin"
    /\ \/ /\ \A u \in users : u.email = req[r].email =>
                 \A a \in CredentialAccounts(u.id) :
                    ~VerifyPassword(a.password, req[r].password)
          /\ Set(r, [req[r] EXCEPT !.pc = "done", !.outcome = "native_failed"])
          /\ UNCHANGED lastSignIn
       \/ \E u \in users :
             /\ u.email = req[r].email
             /\ \E a \in CredentialAccounts(u.id) :
                   VerifyPassword(a.password, req[r].password)
             /\ Set(r, [req[r] EXCEPT !.pc = "done", !.outcome = "ok",
                                      !.userId = u.id])
             /\ lastSignIn' = [lastSignIn EXCEPT ![Lower(req[r].email)] =
                                  [userId |-> u.id, hash |-> StoredHash(req[r].accountId),
                                   password |-> req[r].password,
                                   moved |-> req[r].rehashed,
                                   alone |-> Alone(req[r])]]
    /\ UNCHANGED <<crashes, sessions, vreq>>
    /\ UNCHANGED configVars
    /\ UNCHANGED <<legacy, users, accounts, nextId, started, pwChanges, lastSignUp>>

\* ------------------------------------------------------------------ /callback/
\* A social-login callback reaches the hook with the provider's profile in
\* ctx.user; without an email in it the hook returns at once.
CallbackBegin(r) ==
    /\ FirstFree(r)
    /\ started < MaxRequests
    /\ \E e \in Emails \cup {NoEmail} :
          LET rec == [IdleReq EXCEPT !.kind = "callback", !.email = e,
                         !.quiet = \A q \in Slots : req[q].pc = "idle",
                         !.ticket = started + 1,
                         !.hadUser = \E u \in users : u.email = e]
          IN  IF e = NoEmail
              THEN Set(r, [rec EXCEPT !.pc = "done", !.hook = Proceeds,
                                      !.outcome = "returned"])
              ELSE Set(r, [rec EXCEPT !.pc = "check"])
    /\ started' = started + 1
    /\ UNCHANGED <<crashes, sessions, vreq>>
    /\ UNCHANGED configVars
    /\ UNCHANGED <<legacy, users, accounts, nextId, pwChanges, lastSignUp, lastSignIn>>

\* (variant: a hook that links whatever the existence check said)
CallbackFindsAlways(existsResult) == TRUE

\* if (existsResult.exists) { ... } else { console.log(...) }

CallbackFinds(existsResult) == existsResult.exists

\* the hook's part of a callback is over: it returns, and the provider's
\* sign-in goes on outside this model
CallbackReturn(rec) ==
    [rec EXCEPT !.pc = "done", !.hook = Proceeds, !.outcome = "returned"]

CallbackCheck(r) ==
    /\ req[r].pc = "check"
    /\ req[r].kind = "callback"
    /\ \E o \in CallOutcomes :
          LET existsResult == CheckUserExists(LegacyCheckUser(req[r].email, o))
              rec == [req[r] EXCEPT !.checkCall = o,
                         !.legacyHad = LegacyUser(req[r].email) # NoUser]
          IN  IF CallbackFinds(existsResult)
              THEN Set(r, [rec EXCEPT !.pc = "cbSelectUser"])
              ELSE Set(r, CallbackReturn(rec))
    /\ UNCHANGED <<crashes, sessions, vreq>>
    /\ UNCHANGED configVars
    /\ UNCHANGED <<legacy, users, accounts, nextId, started, pwChanges,
                   lastSignUp, lastSignIn>>

CallbackSelectUser(r) ==
    /\ req[r].pc = "cbSelectUser"
    /\ LET rec == [req[r] EXCEPT !.reads = @ + 1]
       IN  IF UsersByEmail(req[r].email) = {}
           THEN Set(r, [rec EXCEPT !.pc = "cbInsertUser"])
           ELSE \E u \in UsersByEmail(req[r].email) :
                   Set(r, CallbackReturn([rec EXCEPT !.userId = u.id]))
    /\ UNCHANGED <<crashes, sessions, vreq>>
    /\ UNCHANGED configVars
    /\ UNCHANGED <<legacy, users, accounts, nextId, started, pwChanges,
                   lastSignUp, lastSignIn>>

CallbackInsertUser(r) ==
    /\ req[r].pc = "cbInsertUser"
    /\ IF EmailTaken(req[r].email)
       THEN /\ Set(r, Throw(req[r], "DbError", "user_email_unique"))
            /\ UNCHANGED <<users, nextId>>
       ELSE /\ users' = users \cup {[id |-> nextId, email |-> req[r].email,
                                     emailVerified |-> TRUE]}
            /\ nextId' = nextId + 1
            /\ Set(r, CallbackReturn([req[r] EXCEPT !.userId = nextId,
                          !.writes = @ + 1, !.madeUser = TRUE]))
    /\ UNCHANGED <<crashes, sessions, vreq>>
    /\ UNCHANGED configVars
    /\ UNCHANGED <<legacy, accounts, started, pwChanges, lastSignUp, lastSignIn>>

\* ------------------------------------------------------ a call with no answer
\* await fetch(url, {method, headers, body}): the handler goes on when the
\* promise settles.  The call is made with no signal and no timer, so when
\* neither a response nor a transport error comes the promise stays pending.
FetchPending(r) ==
    /\ req[r].pc \in {"check", "verify", "create"}
    /\ Set(r, [req[r] EXCEPT !.pc = "pending"])
    /\ UNCHANGED <<crashes, sessions, vreq>>
    /\ UNCHANGED configVars
    /\ UNCHANGED <<legacy, users, accounts, nextId, started, pwChanges,
                   lastSignUp, lastSignIn>>

\* ------------------------------------------------------------- environment
\* The process stops with requests in flight; the stores keep what was
\* written.  A sign-up that had made the legacy user and not yet the local
\* Principal leaves the email in the legacy store only.
LeavesLegacyOnly(rec) ==
    /\ rec.kind = "signup"
    /\ rec.pc = "native"
    /\ rec.createCall = "ok"
    /\ rec.createReported
    /\ ~\E u \in users : u.email = rec.email

Crash ==
    /\ crashes < MaxCrashes
    /\ \E r \in Slots : req[r].pc # "idle"
    /\ req' = [r \in Slots |-> IdleReq]
    /\ last' = IdleReq
    /\ crashes' = crashes + 1
    /\ lastSignUp' =
          [e \in Emails |->
              IF \E r \in Slots : req[r].email = e /\ LeavesLegacyOnly(req[r])
              THEN [userId |-> NoRow, legacyOnly |-> TRUE,
                    password |-> req[CHOOSE r \in Slots :
                        req[r].email = e /\ LeavesLegacyOnly(req[r])].password]
              ELSE lastSignUp[e]]
    /\ UNCHANGED <<legacy, users, accounts, nextId, started, pwChanges, lastSignIn>>
    /\ UNCHANGED <<sessions, vreq>>
    /\ UNCHANGED configVars

\* The legacy store is written by its own clients too: a user changes the
\* credential there.
LegacyChangePassword(e) ==
    /\ pwChanges < MaxPasswordChanges
    /\ legacy[e] # NoUser
    /\ \E p \in Passwords \ {legacy[e]} : legacy' = [legacy EXCEPT ![e] = p]
    /\ pwChanges' = pwChanges + 1
    /\ last' = IdleReq
    /\ UNCHANGED <<crashes, sessions, vreq>>
    /\ UNCHANGED configVars
    /\ UNCHANGED <<users, accounts, nextId, req, started, lastSignUp, lastSignIn>>

Next ==
    \/ \E r \in Slots : HookBegin(r)
    \/ \E r \in Slots : HookNoEmail(r)
    \/ \E r \in Slots : SignUpCheck(r)
    \/ \E r \in Slots : SignUpCreate(r)
    \/ \E r \in Slots : NativeSignUp(r)
    \/ \E r \in Slots : SignInCheck(r)
    \/ \E r \in Slots : SignInVerify(r)
    \/ \E r \in Slots : SignInSelectUser(r)
    \/ \E r \in Slots : SignInInsertUser(r)
    \/ \E r \in Slots : SignInSelectAccount(r)
    \/ \E r \in Slots : SignInInsertAccount(r)
    \/ \E r \in Slots : SignInUpdateAccount(r)
    \/ \E r \in Slots : NativeSignIn(r)
    \/ \E r \in Slots : CallbackBegin(r)
    \/ \E r \in Slots : CallbackCheck(r)
    \/ \E r \in Slots : CallbackSelectUser(r)
    \/ \E r \in Slots : CallbackInsertUser(r)
    \/ \E r \in Slots : FetchPending(r)
    \/ Crash
    \/ \E e \in Emails : LegacyChangePassword(e)

Spec == Init /\ [][Next]_vars

\* ============================================================== properties
\* every request the state holds: the ones in flight and the one just ended
Records == {req[r] : r \in Slots} \cup {last}

HookReturned(rec) ==
    rec.kind \in {"signup", "signin"} /\ rec.hook = Proceeds /\ rec.email # NoEmail

\* what the legacy store answered, whatever the client made of it
LegacySaidExists(rec) == rec.checkCall = "ok" /\ rec.legacyHad

LegacySaidValid(rec) == rec.authorizeCall = "ok"

LegacySaidCreated(rec) == rec.createCall = "ok" /\ rec.createReported

CheckFailed(rec) == rec.checkCall \in {"http_error", "network_error"}

\* C1: whenever the hook has let a sign-up or sign-in for a non-empty email
\* proceed, the legacy store holds that email, and for a sign-in the local
\* store holds a Principal with that email.
C1_ProceedOnlyForLegacyUser ==
    \A rec \in Records :
        HookReturned(rec) =>
            /\ LegacyUser(rec.email) # NoUser
            /\ rec.kind = "signin" => \E u \in users : u.email = rec.email

C1_Witness ==
    \E r, q \in Slots :
        /\ req[r].pc = "native" /\ req[r].kind = "signup"
        /\ req[q].pc = "native" /\ req[q].kind = "signin" /\ req[q].madeUser

\* C2 (as claimed): when the sign-in hook has returned for (E, p), the
\* password CredentialRecord it left for E holds a current-format hash of
\* exactly p.
C2_HashIsOfCredential ==
    \A r \in Slots :
        (req[r].pc = "native" /\ req[r].kind = "signin") =>
            VerifyPassword(req[r].hashAfter, req[r].password)

\* C3 (as claimed): a sign-up for an email the legacy store holds makes no
\* legacy create-user call and no local write, and ends with AlreadyExists.
C3_ExistingEmailRejected ==
    \A rec \in Records :
        (rec.kind = "signup" /\ rec.checkCall # "none" /\ rec.legacyHad) =>
            /\ rec.pc # "create"
            /\ rec.createCalls = 0
            /\ rec.writes = 0
            /\ rec.pc = "done" => rec.hook = Thrown("AlreadyExists", rec.email)

\* C4: a sign-up whose legacy create-user call did not report created ends
\* with LegacyCreateFailed carrying the legacy error text, without a local
\* write; the native sign-up runs only after a reported creation.
C4_CreateFailureAborts ==
    \A rec \in Records :
        (rec.kind = "signup" /\ rec.createCalls > 0 /\ ~LegacySaidCreated(rec)) =>
            /\ rec.pc = "done"
            /\ rec.hook.error = "LegacyCreateFailed"
            /\ rec.createText # "" => rec.hook.detail = rec.createText
            /\ rec.createCall = "ok" => rec.hook.detail = "User creation response invalid"
            /\ rec.outcome = "hook_threw"
            /\ rec.writes = 0

C4_Witness ==
    /\ last.kind = "signup"
    /\ last.createCall = "network_error"
    /\ last.hook = Thrown("LegacyCreateFailed", "fetch failed")

\* C5 (as claimed): a sign-up never proceeds to the local registration after
\* a legacy call of it failed.
C5_FailedLegacyCallIsFatal ==
    \A rec \in Records :
        (rec.kind = "signup" /\ HookReturned(rec)) =>
            /\ ~CheckFailed(rec)
            /\ rec.createCall = "ok"

\* C6 (as claimed): a failed existence check never has the effect of the
\* answer 'does not exist': sign-in does not end with NotRegistered on it, and
\* sign-up does not go on to create the user.
C6_FailedCheckIsDistinct ==
    \A rec \in Records :
        CheckFailed(rec) =>
            /\ rec.hook.error # "NotRegistered"
            /\ ~(rec.kind = "signup" /\ (rec.pc = "create" \/ rec.createCalls > 0))

\* C7: a sign-in for E with the credential of E's earlier successful sign-up,
\* accepted by the legacy store, finds the Principal that sign-up made,
\* creates none, and succeeds with that Principal's id.
C7_SignInFindsSignUpPrincipal ==
    \A rec \in Records :
        (rec.kind = "signin" /\ rec.prevSignUp.userId # NoRow) =>
            /\ rec.pc # "insertUser"
            /\ ~rec.madeUser
            /\ rec.userId \in {NoRow, rec.prevSignUp.userId}
            /\ (rec.pc = "done" /\ LegacySaidValid(rec)
                  /\ rec.password = rec.prevSignUp.password) =>
                   (rec.outcome = "ok" /\ rec.userId = rec.prevSignUp.userId)

C7_Witness ==
    /\ last.kind = "signin"
    /\ last.prevSignUp.userId # NoRow
    /\ last.outcome = "ok"
    /\ last.userId = last.prevSignUp.userId

\* C8: a sign-in for an email the legacy store does not hold ends with
\* NotRegistered, without a legacy authorize call and without a read or a
\* write of the local store.
C8_UnknownEmailNotRegistered ==
    \A rec \in Records :
        (rec.kind = "signin" /\ rec.checkCall # "none" /\ ~rec.legacyHad) =>
            /\ rec.pc = "done"
            /\ rec.hook = Thrown("NotRegistered", "")
            /\ rec.authorizeCalls = 0
            /\ rec.reads = 0
            /\ rec.writes = 0

C8_Witness ==
    /\ last.kind = "signin"
    /\ last.checkCall = "ok"
    /\ ~last.legacyHad
    /\ last.hook = Thrown("NotRegistered", "")

\* C9: a sign-in writes the local store only after the legacy store said
\* exists and then said valid (the authorize call itself comes after the
\* exists answer); one that ends with InvalidCredentials has written nothing.
C9_LocalWriteAfterLegacy ==
    \A rec \in Records :
        rec.kind = "signin" =>
            /\ rec.writes > 0 => (LegacySaidExists(rec) /\ LegacySaidValid(rec))
            /\ rec.authorizeCalls > 0 => LegacySaidExists(rec)
            /\ rec.hook.error = "InvalidCredentials" => rec.writes = 0

C9_Witness ==
    \E r \in Slots :
        /\ req[r].kind = "signin"
        /\ req[r].pc = "native"
        /\ req[r].writes = 2

\* C10: after a sign-in for (E, p) that ran on its own and migrated a
\* pre-migration hash, the next sign-in for (E, p), begun with no other
\* request in flight and accepted by the legacy store,
\* succeeds and leaves the stored hash as the first one left it.
C10_MigrationIdempotent ==
    (/\ last.kind = "signin"
     /\ last.quiet
     /\ last.prevSignIn.moved
     /\ last.prevSignIn.alone
     /\ last.password = last.prevSignIn.password
     /\ LegacySaidValid(last)) =>
        /\ last.outcome = "ok"
        /\ ~last.rehashed
        /\ last.hashAfter = last.prevSignIn.hash
        /\ \A a \in accounts : a.id = last.accountId => a.password = last.prevSignIn.hash

C10_Witness ==
    /\ last.kind = "signin"
    /\ last.quiet
    /\ last.prevSignIn.moved
    /\ last.prevSignIn.alone
    /\ last.password = last.prevSignIn.password
    /\ last.outcome = "ok"

\* C11 (as claimed): no Principal ever has more than one password
\* CredentialRecord, also while sign-ins for it interleave between the
\* credential lookup and the insert, and after a sign-in has ended
\* successfully its Principal has exactly one.
C11_OneCredentialRecord ==
    /\ \A u \in users : Cardinality(CredentialAccounts(u.id)) <= 1
    /\ (last.kind = "signin" /\ last.outcome = "ok") =>
           Cardinality(CredentialAccounts(last.userId)) = 1

C14_CallbackIdempotent ==
    \A rec \in Records :
        rec.kind = "callback" =>
            /\ rec.createCalls = 0
            /\ rec.authorizeCalls = 0
            /\ rec.writes <= 1
            /\ rec.hadUser =>
                   /\ rec.writes = 0
                   /\ rec.pc # "cbInsertUser"
                   /\ rec.hook.error # "DbError"
            /\ (rec.checkCall = "ok" /\ ~rec.legacyHad) =>
                   /\ rec.reads = 0
                   /\ rec.writes = 0
                   /\ rec.pc \notin {"cbSelectUser", "cbInsertUser"}

\* a callback has ended that found the Principal an earlier callback had made
C14_Witness ==
    /\ last.kind = "callback"
    /\ last.quiet
    /\ last.hadUser
    /\ last.reads = 1
    /\ last.outcome = "returned"
    /\ crashes = 0
    /\ accounts = {}
    /\ Cardinality(users) = 1

\* C15: after the process stopped between a sign-up's creation of the legacy
\* user and the writing of the local Principal, the next sign-in with the
\* same credential, begun while the local store still holds no Principal
\* for the email, run on its own and answered by the legacy store, succeeds
\* and leaves a local Principal with a password CredentialRecord.
C15_CrashRecovery ==
    (/\ last.kind = "signin"
     /\ last.prevSignUp.legacyOnly
     /\ ~last.hadUser
     /\ last.password = last.prevSignUp.password
     /\ Alone(last)
     /\ LegacySaidExists(last)
     /\ LegacySaidValid(last)) =>
        /\ last.outcome = "ok"
        /\ \E u \in users :
              /\ u.email = last.email
              /\ u.id = last.userId
              /\ CredentialAccounts(u.id) # {}

\* such a sign-in has ended, and it was the one that made the Principal
C15_Witness ==
    /\ last.kind = "signin"
    /\ last.prevSignUp.legacyOnly
    /\ last.password = last.prevSignUp.password
    /\ Alone(last)
    /\ last.madeUser
    /\ last.writes = 2
    /\ last.outcome = "ok"

\* the steps by which the handler in slot r goes on with its request
HandlerStep(r) ==
    \/ SignUpCheck(r)
    \/ SignUpCreate(r)
    \/ NativeSignUp(r)
    \/ SignInCheck(r)
    \/ SignInVerify(r)
    \/ SignInSelectUser(r)
    \/ SignInInsertUser(r)
    \/ SignInSelectAccount(r)
    \/ SignInInsertAccount(r)
    \/ SignInUpdateAccount(r)
    \/ NativeSignIn(r)
    \/ CallbackCheck(r)
    \/ CallbackSelectUser(r)
    \/ CallbackInsertUser(r)

\* C16 (as claimed): every request in flight can go on towards its end,
\* also one whose legacy call gets no response: no handler is ever left
\* with no step to take.
C16_EveryRequestCanComplete ==
    \A r \in Slots : req[r].pc # "idle" => ENABLED HandlerStep(r)

\* ================================================= the letter case of an email
\* Sign-ins and callbacks whose email is spelled in either letter case; the
\* hook takes ctx.body.email and ctx.user.email as they come.
CasedBegin(r) ==
    /\ FirstFree(r)
    /\ started < MaxRequests
    /\ \E k \in {"signin", "callback"}, e \in CasedEmails, p \in Passwords :
          Set(r, [IdleReq EXCEPT !.pc = "check", !.kind = k, !.email = e,
                     !.password = IF k = "callback" THEN "p1" ELSE p,
                     !.quiet = \A q \in Slots : req[q].pc = "idle",
                     !.prevSignUp = lastSignUp[Lower(e)],
                     !.prevSignIn = lastSignIn[Lower(e)],
                     !.ticket = started + 1,
                     !.hadUser = \E u \in users : u.email = e])
    /\ started' = started + 1
    /\ UNCHANGED <<crashes, sessions, vreq>>
    /\ UNCHANGED configVars
    /\ UNCHANGED <<legacy, users, accounts, nextId, pwChanges, lastSignUp, lastSignIn>>

NextCase ==
    \/ \E r \in Slots : CasedBegin(r)
    \/ \E r \in Slots : SignInCheck(r)
    \/ \E r \in Slots : SignInVerify(r)
    \/ \E r \in Slots : SignInSelectUser(r)
    \/ \E r \in Slots : SignInInsertUser(r)
    \/ \E r \in Slots : SignInSelectAccount(r)
    \/ \E r \in Slots : SignInInsertAccount(r)
    \/ \E r \in Slots : SignInUpdateAccount(r)
    \/ \E r \in Slots : NativeSignIn(r)
    \/ \E r \in Slots : CallbackCheck(r)
    \/ \E r \in Slots : CallbackSelectUser(r)
    \/ \E r \in Slots : CallbackInsertUser(r)

SpecCase == Init /\ [][NextCase]_vars

\* C13 (as claimed): when the hook looks up the local Principal for a
\* sign-in or a callback and the local store holds a Principal whose email
\* is the request's but for letter case, the lookup finds it: the hook does
\* not go on to insert a Principal.
C13_LookupIgnoresCase ==
    [][\A r \in Slots :
          (/\ req[r].pc \in {"selectUser", "cbSelectUser"}
           /\ \E u \in users : Lower(u.email) = Lower(req[r].email))
              => req'[r].pc \notin {"insertUser", "cbInsertUser"}]_vars

\* ============================================================= /api/verify
hookVars == <<legacy, users, accounts, nextId, req, last, started, pwChanges,
              lastSignUp, lastSignIn, crashes>>

\* decodeURIComponent: "%XY" with two hex digits is the character of that
\* code, any other character stands for itself, and a '%' not followed by
\* two hex digits raises URIError.
HexDigits == {"2", "5"}

HexChar(a, b) ==
    IF a = "2" /\ b = "5" THEN "%"
    ELSE IF a = "2" /\ b = "2" THEN "quote"
    ELSE IF a = "5" /\ b = "2" THEN "R"
    ELSE "U"

RECURSIVE Malformed(_)
Malformed(t) ==
    IF t = <<>> THEN FALSE
    ELSE IF Head(t) # "%" THEN Malformed(Tail(t))
    ELSE IF Len(t) < 3 THEN TRUE
    ELSE IF t[2] \notin HexDigits \/ t[3] \notin HexDigits THEN TRUE
    ELSE Malformed(SubSeq(t, 4, Len(t)))

RECURSIVE DecodeURIComponent(_)
DecodeURIComponent(t) ==
    IF t = <<>> THEN <<>>
    ELSE IF Head(t) # "%" THEN <<Head(t)>> \o DecodeURIComponent(Tail(t))
    ELSE <<HexChar(t[2], t[3])>> \o DecodeURIComponent(SubSeq(t, 4, Len(t)))

\* the state of the session a token keys; no other token keys one
SessionState(k) == IF k \in SessionKeys THEN sessions[k] ELSE "absent"

\* auth.api.getSession for the cookie better-auth.session_token=<k>: the
\* session and its user when the token keys a session that has not expired
GetSession(k) ==
    IF SessionState(k) = "live" THEN SessionDataOf(k) ELSE NoSessionData

\* (variant: a handler that takes whatever the lookup returned)
SessionFoundAlways(sessionData) == TRUE

\* if (sessionData && sessionData.user)

SessionFound(sessionData) ==
    sessionData # NoSessionData /\ sessionData.user # NoPrincipal

\* (variant: a handler with no fallback)
NeedsFallbackNever(needsDecoding, token, decodedToken) == FALSE

\* (variant: a handler that always tries the raw token again)
NeedsFallbackAlways(needsDecoding, token, decodedToken) == TRUE

\* if (needsDecoding && token !== decodedToken)

NeedsFallback(needsDecoding, token, decodedToken) ==
    needsDecoding /\ token # decodedToken

\* email?.split('@')[0]
LocalPart(email) == IF email = "a@x.com" THEN "a" ELSE ""

\* c.json({valid: true, user: {...}, session: {...}})
ValidResponse(sessionData) ==
    [status |-> 200, valid |-> TRUE, error |-> "",
     user |-> sessionData.user,
     username |-> IF LocalPart(sessionData.user.email) # ""
                  THEN LocalPart(sessionData.user.email)
                  ELSE sessionData.user.name,
     session |-> sessionData.session]

ErrorResponse(status, error) ==
    [NoResponse EXCEPT !.status = status, !.error = error]

VerifyEnd(rec, response) == [rec EXCEPT !.pc = "done", !.response = response]

\* const { token } = await c.req.json() up to the first await of a lookup
VerifyStart(token, again) ==
    LET rec == [IdleVerify EXCEPT !.token = token,
                   !.needsDecoding = Includes(token, "%"),
                   !.repeat = again,
                   !.fixed = IF again THEN vreq.fixed ELSE TRUE,
                   !.prev = IF again THEN vreq.response ELSE NoResponse,
                   !.prevLookupFailed = again /\ vreq.lookupFailed]
    IN  IF token = <<>>
        THEN VerifyEnd(rec, ErrorResponse(400, "Token is required"))
        ELSE IF rec.needsDecoding /\ Malformed(token)
        THEN VerifyEnd(rec, ErrorResponse(500, "Token verification failed"))
        ELSE [rec EXCEPT !.pc = "lookup",
                 !.decodedToken = IF rec.needsDecoding
                                  THEN DecodeURIComponent(token) ELSE token]

VerifyBegin ==
    /\ vreq.pc \in {"idle", "done"}
    /\ \E token \in Tokens : vreq' = VerifyStart(token, FALSE)
    /\ UNCHANGED sessions
    /\ UNCHANGED hookVars
    /\ UNCHANGED configVars

\* the same token is presented once more
VerifyAgain ==
    /\ vreq.pc = "done"
    /\ ~vreq.repeat
    /\ vreq' = VerifyStart(vreq.token, TRUE)
    /\ UNCHANGED sessions
    /\ UNCHANGED hookVars
    /\ UNCHANGED configVars

\* the lookup by the decoded token
VerifyLookup ==
    /\ vreq.pc = "lookup"
    /\ \E o \in {"ok", "db_error"} :
          LET sessionData == GetSession(vreq.decodedToken)
              rec == [vreq EXCEPT !.lookups = Append(@, vreq.decodedToken)]
          IN  vreq' =
                IF o = "db_error"
                THEN VerifyEnd([rec EXCEPT !.lookupFailed = TRUE],
                               ErrorResponse(500, "Token verification failed"))
                ELSE IF SessionFound(sessionData)
                THEN VerifyEnd(rec, ValidResponse(sessionData))
                ELSE IF NeedsFallback(vreq.needsDecoding, vreq.token,
                                      vreq.decodedToken)
                THEN [rec EXCEPT !.pc = "fallback"]
                ELSE VerifyEnd(rec, ErrorResponse(401, "Invalid or expired token"))
    /\ UNCHANGED sessions
    /\ UNCHANGED hookVars
    /\ UNCHANGED configVars

\* the lookup by the token as it came
VerifyFallback ==
    /\ vreq.pc = "fallback"
    /\ \E o \in {"ok", "db_error"} :
          LET sessionData2 == GetSession(vreq.token)
              rec == [vreq EXCEPT !.lookups = Append(@, vreq.token)]
          IN  vreq' =
                IF o = "db_error"
                THEN VerifyEnd([rec EXCEPT !.lookupFailed = TRUE],
                               ErrorResponse(500, "Token verification failed"))
                ELSE IF SessionFound(sessionData2)
                THEN VerifyEnd(rec, ValidResponse(sessionData2))
                ELSE VerifyEnd(rec, ErrorResponse(401, "Invalid or expired token"))
    /\ UNCHANGED sessions
    /\ UNCHANGED hookVars
    /\ UNCHANGED configVars

\* encodeURIComponent on the characters of a token: '%' is escaped
RECURSIVE EncodeURIComponent(_)
EncodeURIComponent(t) ==
    IF t = <<>> THEN <<>>
    ELSE (IF Head(t) = "%" THEN <<"%", "2", "5">> ELSE <<Head(t)>>)
             \o EncodeURIComponent(Tail(t))

\* the set-cookie header of a successful sign-up or sign-in for the session
\* keyed k: the cookies joined by ',', the session cookie with its value
\* escaped and followed by its attributes
SetCookieHeader(k) ==
    <<"better-auth.session_data=", "d", ";", " ", "Path=/", ",", " ",
      "better-auth.session_token=">>
        \o EncodeURIComponent(k)
        \o <<";", " ", "Max-Age=604800", ";", " ", "HttpOnly">>

\* the pieces of s before its first ';'
RECURSIVE UpToSemicolon(_)
UpToSemicolon(s) ==
    IF s = <<>> \/ Head(s) = ";" THEN <<>>
    ELSE <<Head(s)>> \o UpToSemicolon(Tail(s))

\* (variant: an extraction that keeps the cookie's attributes)
ExtractSessionTokenWhole(setCookieHeader) ==
    LET cookies == Split(setCookieHeader)
        i == CHOOSE j \in 1..Len(cookies) :
                 Includes(cookies[j], "better-auth.session_token=")
        at == CHOOSE n \in 1..Len(cookies[i]) :
                 cookies[i][n] = "better-auth.session_token="
    IN  SubSeq(cookies[i], at + 1, Len(cookies[i]))

\* setCookieHeader.split(','), the first cookie that includes the name, and
\* the match of /better-auth\.session_token=([^;]+)/ in it

ExtractSessionToken(setCookieHeader) ==
    LET cookies == Split(setCookieHeader)
        i == CHOOSE j \in 1..Len(cookies) :
                 Includes(cookies[j], "better-auth.session_token=")
        at == CHOOSE n \in 1..Len(cookies[i]) :
                 cookies[i][n] = "better-auth.session_token="
    IN  UpToSemicolon(SubSeq(cookies[i], at + 1, Len(cookies[i])))

\* the client presents the token that the sign-up or sign-in response of a
\* live session carried
VerifyIssued ==
    /\ vreq.pc \in {"idle", "done"}
    /\ \E k \in SessionKeys :
          /\ sessions[k] = "live"
          /\ vreq' = [VerifyStart(ExtractSessionToken(SetCookieHeader(k)), FALSE)
                        EXCEPT !.issuedFor = k]
    /\ UNCHANGED sessions
    /\ UNCHANGED hookVars
    /\ UNCHANGED configVars

\* The session table changes under the handler: the local store issues a
\* session, a session's expiresAt passes, a session is revoked.
SessionIssued(k) ==
    /\ sessions[k] = "absent"
    /\ sessions' = [sessions EXCEPT ![k] = "live"]
    /\ vreq' = [vreq EXCEPT !.fixed = FALSE]
    /\ UNCHANGED hookVars
    /\ UNCHANGED configVars

SessionExpires(k) ==
    /\ sessions[k] = "live"
    /\ sessions' = [sessions EXCEPT ![k] = "expired"]
    /\ vreq' = [vreq EXCEPT !.fixed = FALSE]
    /\ UNCHANGED hookVars
    /\ UNCHANGED configVars

SessionRevoked(k) ==
    /\ sessions[k] \in {"live", "expired"}
    /\ sessions' = [sessions EXCEPT ![k] = "absent"]
    /\ vreq' = [vreq EXCEPT !.fixed = FALSE]
    /\ UNCHANGED hookVars
    /\ UNCHANGED configVars

InitVerify ==
    /\ legacy = [e \in Emails |-> NoUser]
    /\ users = {}
    /\ accounts = {}
    /\ nextId = 1
    /\ req = [r \in Slots |-> IdleReq]
    /\ last = IdleReq
    /\ started = 0
    /\ pwChanges = 0
    /\ lastSignUp = [e \in Emails |-> NoSignUp]
    /\ lastSignIn = [e \in Emails |-> NoSignIn]
    /\ crashes = 0
    /\ sessions \in [SessionKeys -> SessionStates]
    /\ vreq = IdleVerify
    /\ ConfigIdle

NextVerify ==
    \/ VerifyBegin
    \/ VerifyAgain
    \/ VerifyIssued
    \/ VerifyLookup
    \/ VerifyFallback
    \/ \E k \in SessionKeys : SessionIssued(k)
    \/ \E k \in SessionKeys : SessionExpires(k)
    \/ \E k \in SessionKeys : SessionRevoked(k)

SpecVerify == InitVerify /\ [][NextVerify]_vars

\* the handler answered, no lookup failed, and the session table stayed as
\* it was while the handler ran
Settled == vreq.pc = "done" /\ ~vreq.lookupFailed /\ vreq.fixed

Live(k) == SessionState(k) = "live"

\* C17: Verify of a token whose decoded form differs from it makes at most
\* two lookups, the decoded form first and the token as it came second and
\* once; it answers valid with the session keyed by the decoded form when
\* there is one, valid with the session keyed by the raw form when only
\* that one exists, and invalid when neither does.
C17_FallbackLookup ==
    /\ Len(vreq.lookups) <= 2
    /\ (Settled /\ vreq.needsDecoding /\ ~Malformed(vreq.token)
           /\ vreq.decodedToken # vreq.token) =>
          /\ Live(vreq.decodedToken) =>
                /\ vreq.response.valid
                /\ vreq.response.session = SessionDataOf(vreq.decodedToken).session
                /\ vreq.lookups = <<vreq.decodedToken>>
          /\ (~Live(vreq.decodedToken) /\ Live(vreq.token)) =>
                /\ vreq.response.valid
                /\ vreq.response.session = SessionDataOf(vreq.token).session
                /\ vreq.lookups = <<vreq.decodedToken, vreq.token>>
          /\ (~Live(vreq.decodedToken) /\ ~Live(vreq.token)) =>
                /\ vreq.response.status = 401
                /\ vreq.lookups = <<vreq.decodedToken, vreq.token>>

\* "%25" was verified by the session keyed by the raw form only
C17_Witness ==
    /\ Settled
    /\ vreq.token = <<"%", "2", "5">>
    /\ vreq.decodedToken = <<"%">>
    /\ ~Live(<<"%">>)
    /\ vreq.response.valid
    /\ Len(vreq.lookups) = 2

\* C18: Verify of a token with no '%' in it makes exactly one lookup,
\* whether or not it finds a session; the second lookup is made only when
\* the token was decoded and the decoding changed it.
C18_SingleLookup ==
    /\ (vreq.pc = "done" /\ vreq.token # <<>> /\ ~Includes(vreq.token, "%")) =>
           Len(vreq.lookups) = 1
    /\ (vreq.pc = "fallback" \/ Len(vreq.lookups) = 2) =>
           (vreq.needsDecoding /\ vreq.decodedToken # vreq.token)

\* a plain token that keys no session was answered after one lookup
C18_Witness ==
    /\ vreq.pc = "done"
    /\ vreq.token = <<"5">>
    /\ vreq.response.status = 401
    /\ Len(vreq.lookups) = 1

\* C19 (as claimed): whatever the characters of a non-empty token, when no
\* lookup fails Verify answers valid or 401 invalid, never 500.
C19_NeverFailsOnContent ==
    (vreq.pc = "done" /\ vreq.token # <<>> /\ ~vreq.lookupFailed) =>
        vreq.response.status \in {200, 401}

hookIdle ==
    /\ legacy = [e \in Emails |-> NoUser]
    /\ users = {}
    /\ accounts = {}
    /\ nextId = 1
    /\ req = [r \in Slots |-> IdleReq]
    /\ last = IdleReq
    /\ started = 0
    /\ pwChanges = 0
    /\ lastSignUp = [e \in Emails |-> NoSignUp]
    /\ lastSignIn = [e \in Emails |-> NoSignIn]
    /\ crashes = 0

otherVars == <<legacy, users, accounts, nextId, req, last, started, pwChanges,
               lastSignUp, lastSignIn, crashes, sessions, vreq, odec,
               naming>>

\* Date.now() - this.lastCacheUpdate < this.CACHE_TTL
IsCacheValid == now - cache.lastCacheUpdate < CACHE_TTL

\* this.cache.has(key)
CacheHas(key) == cache.map[key] # Undefined

\* this.cache.set(key, value)
CacheSet(c, key, value) == [c EXCEPT !.map[key] = value]

\* (variant: a failed select gives nothing, whatever the default)
GetOnFailureNothing(defaultValue) == Undefined

\* catch (error) { return defaultValue }

GetOnFailure(defaultValue) == defaultValue

\* (variant: a reload that fills in the first key only)
LoadedCacheFirstKey(configs, t) ==
    [map |-> [k \in ConfigKeys |->
                 IF k = "TRUSTED_ORIGINS" THEN configs[k].value ELSE Undefined],
     lastCacheUpdate |-> t]

\* this.cache.clear(); for (const config of configs) this.cache.set(...);
\* this.lastCacheUpdate = Date.now(): one synchronous block

LoadedCache(configs, t) ==
    [map |-> [k \in ConfigKeys |-> configs[k].value], lastCacheUpdate |-> t]

\* (variant: a set that updates the cache before its write is known to
\* have succeeded)
SetOnFailureCached(c, key, value) == [c EXCEPT !.map[key] = value]

\* set's catch: the insert threw, this.cache.set(key, value) after it was
\* never reached, and the error is thrown on
SetOnFailure(c, key, value) == c

\* (variant: an initialize that starts a timer whether or not one runs)
NeedsTimerAlways(e) == TRUE

\* (variant: an initialize that never starts the timer)
NeedsTimerNever(e) == FALSE

\* if (!this.refreshInterval)

NeedsTimer(e) == ~e.refreshInterval

\* startAutoRefresh: this.refreshInterval = setInterval(..., REFRESH_INTERVAL)
StartAutoRefresh(e, t) ==
    [e EXCEPT !.refreshInterval = TRUE, !.timers = @ + 1,
              !.timerDue = t + REFRESH_INTERVAL]

\* initialize after its await: the flag, and the timer if there is none
AfterInitialize(e, t) ==
    LET e1 == [e EXCEPT !.initialized = TRUE]
    IN  IF NeedsTimer(e1) THEN StartAutoRefresh(e1, t) ELSE e1

\* authHeader.replace('Bearer ', ''): the first occurrence is removed
RECURSIVE ReplaceFirst(_, _)
ReplaceFirst(h, x) ==
    IF h = <<>> THEN <<>>
    ELSE IF Head(h) = x THEN Tail(h)
    ELSE <<Head(h)>> \o ReplaceFirst(Tail(h), x)

\* (variant: a middleware that lets every request through)
AdminAuthOpen(authHeader) == 0

\* adminAuth: 0 when next() is called, else the status of the refusal

AdminAuth(authHeader) ==
    IF authHeader = <<>> \/ Head(authHeader) # "Bearer "
    THEN 401
    ELSE IF ReplaceFirst(authHeader, "Bearer ") # AdminSecret
    THEN 403
    ELSE 0

AdminRoutes ==
    {"putKey", "deleteKey", "refresh", "putPatterns", "addOrigin", "removeOrigin"}

\* a handler goes on with its request, or ends it and is free again
OpSet(o, rec) ==
    IF rec.pc = "done"
    THEN ops' = [ops EXCEPT ![o] = IdleOp] /\ clast' = rec
    ELSE ops' = [ops EXCEPT ![o] = rec] /\ clast' = IdleOp

Respond(rec, status, result) ==
    [rec EXCEPT !.pc = "done", !.status = status, !.result = result]

FirstFreeOp(o) ==
    /\ ops[o].pc = "idle"
    /\ \A q \in OpSlots : OpOrder[q] < OpOrder[o] => ops[q].pc # "idle"
    /\ opsStarted < MaxOps

NewOp(route, key) == [IdleOp EXCEPT !.route = route, !.key = key]

\* a read, with what the cache and the last completed set held when it began
NewRead(route, key) ==
    [NewOp(route, key) EXCEPT
        !.expect = settled[key],
        !.hadCached = cache.map[key],
        !.staleAtBegin = cache.lastCacheUpdate > 0 /\ ~IsCacheValid,
        !.afterFailedLoad = outage]

\* the defaultValue a route passes to ConfigService.get
DefaultOf(route) ==
    IF route \in {"addOrigin", "removeOrigin"} THEN EmptyValue ELSE Undefined

\* originsList.includes(origin)
ListIncludes(list, x) == \E i \in 1..Len(list) : list[i] = x

\* ConfigService.set(key, value, description, category, isSecret) begins
StartSet(rec, value, category, isSecret) ==
    [rec EXCEPT !.pc = "set_db", !.value = value, !.category = category,
                !.isSecret = isSecret]

\* what a route does with the value ConfigService.get returned
AfterGet(rec, value) ==
    IF rec.route = "getKey"
    THEN IF value = Undefined
         THEN Respond(rec, 404, Undefined)
         ELSE Respond(rec, 200, value)
    ELSE IF rec.route = "deleteKey"
    THEN IF ~Truthy(value)
         THEN Respond(rec, 404, Undefined)
         ELSE StartSet(rec, EmptyValue, "deleted", FALSE)
    ELSE LET originsList == IF Truthy(value) THEN value ELSE <<>>
         IN  IF rec.route = "addOrigin"
             THEN IF ListIncludes(originsList, rec.origin)
                  THEN Respond(rec, 409, Undefined)
                  ELSE StartSet(rec, Append(originsList, rec.origin), "cors", FALSE)
             ELSE IF ~ListIncludes(originsList, rec.origin)
                  THEN Respond(rec, 404, Undefined)
                  ELSE StartSet(rec, ReplaceFirst(originsList, rec.origin),
                                "cors", FALSE)

\* some other request in flight is on its way to a set of this key
OtherSetter(o, key) ==
    \E q \in OpSlots \ {o} :
        /\ ops[q].pc # "idle"
        /\ ops[q].key = key
        /\ ops[q].route \in AdminRoutes \ {"refresh"}

\* ConfigService.get up to its await: the cached value, or the select is issued
StartGet(rec) ==
    IF IsCacheValid /\ CacheHas(rec.key)
    THEN AfterGet(rec, cache.map[rec.key])
    ELSE [rec EXCEPT !.pc = "get_db", !.missed = TRUE]

\* a route behind adminAuth: refused by the middleware, or on to its handler
Admitted(rec, handler) ==
    IF AdminAuth(rec.authHeader) # 0
    THEN Respond(rec, AdminAuth(rec.authHeader), Undefined)
    ELSE handler

Begun(o, rec) ==
    /\ OpSet(o, rec)
    /\ opsStarted' = opsStarted + 1
    /\ UNCHANGED <<store, storeUp, cache, now, enh, settled, outage>>
    /\ UNCHANGED otherVars

\* GET /config/:key
GetKeyBegin(o) ==
    /\ FirstFreeOp(o)
    /\ \E key \in ConfigKeys : Begun(o, StartGet(NewRead("getKey", key)))

\* GET /config and GET /config/category/:category
ListBegin(o) ==
    /\ FirstFreeOp(o)
    /\ \E category \in Categories :
          Begun(o, [NewOp("listCategory", "TRUSTED_ORIGINS") EXCEPT
                       !.category = category, !.pc = "cat_db"])

\* PUT /config/:key
PutKeyBegin(o) ==
    /\ FirstFreeOp(o)
    /\ \E key \in ConfigKeys, value \in PutValues \cup {EmptyValue},
          isSecret \in BOOLEAN, h \in AuthHeaders :
          LET rec == [NewOp("putKey", key) EXCEPT !.authHeader = h]
          IN  Begun(o, Admitted(rec,
                  IF ~Truthy(value)
                  THEN Respond(rec, 400, Undefined)
                  ELSE StartSet(rec, value, "general", isSecret)))

\* DELETE /config/:key
DeleteKeyBegin(o) ==
    /\ FirstFreeOp(o)
    /\ \E key \in ConfigKeys, h \in AuthHeaders :
          LET rec == [NewOp("deleteKey", key) EXCEPT !.authHeader = h]
          IN  Begun(o, Admitted(rec, StartGet(rec)))

\* POST /config/refresh
RefreshBegin(o) ==
    /\ FirstFreeOp(o)
    /\ \E h \in AuthHeaders :
          LET rec == [NewOp("refresh", "TRUSTED_ORIGINS") EXCEPT !.authHeader = h]
          IN  Begun(o, Admitted(rec, [rec EXCEPT !.pc = "load_db", !.stage = 1]))

\* PUT /config/cors/patterns
PutPatternsBegin(o) ==
    /\ FirstFreeOp(o)
    /\ \E patterns \in PutValues \cup {EmptyValue, Undefined}, h \in AuthHeaders :
          LET rec == [NewOp("putPatterns", "ALLOWED_DOMAIN_PATTERNS") EXCEPT
                         !.authHeader = h]
          IN  Begun(o, Admitted(rec,
                  IF patterns = Undefined
                  THEN Respond(rec, 400, Undefined)
                  ELSE StartSet(rec, patterns, "cors", FALSE)))

\* POST /config/cors/origins
AddOriginBegin(o) ==
    /\ FirstFreeOp(o)
    /\ \E origin \in Items, h \in AuthHeaders :
          LET rec == [NewOp("addOrigin", "TRUSTED_ORIGINS") EXCEPT
                         !.authHeader = h, !.origin = origin]
          IN  Begun(o, Admitted(rec, StartGet(rec)))

\* DELETE /config/cors/origins
RemoveOriginBegin(o) ==
    /\ FirstFreeOp(o)
    /\ \E origin \in Items, h \in AuthHeaders :
          LET rec == [NewOp("removeOrigin", "TRUSTED_ORIGINS") EXCEPT
                         !.authHeader = h, !.origin = origin]
          IN  Begun(o, Admitted(rec, StartGet(rec)))

\* EnhancedEnv.initialize() at start-up
InitializeBegin(o) ==
    /\ FirstFreeOp(o)
    /\ ~enh.initialized
    /\ Begun(o, [NewOp("initialize", "TRUSTED_ORIGINS") EXCEPT
                    !.pc = "load_db", !.stage = 2])

\* the setInterval callback of startAutoRefresh
TimerFires(o) ==
    /\ FirstFreeOp(o)
    /\ enh.timers > 0
    /\ now >= enh.timerDue
    /\ OpSet(o, [NewOp("timer", "TRUSTED_ORIGINS") EXCEPT
                    !.pc = "load_db", !.stage = 0])
    /\ opsStarted' = opsStarted + 1
    /\ enh' = [enh EXCEPT !.timerDue = enh.timerDue + REFRESH_INTERVAL]
    /\ UNCHANGED <<store, storeUp, cache, now, settled, outage>>
    /\ UNCHANGED otherVars

\* the database answers the select of ConfigService.get
DbSelectKey(o) ==
    /\ ops[o].pc = "get_db"
    /\ OpSet(o, [ops[o] EXCEPT !.pc = "get_resume",
                    !.row = IF storeUp THEN store[ops[o].key] ELSE NoConfig,
                    !.dbFailed = ~storeUp])
    /\ UNCHANGED <<store, storeUp, cache, now, enh, opsStarted, settled, outage>>
    /\ UNCHANGED otherVars

\* ConfigService.get after its await, and the route's use of the value
GetResume(o) ==
    /\ ops[o].pc = "get_resume"
    /\ LET rec == ops[o]
           found == ~rec.dbFailed /\ rec.row # NoConfig
           value == IF rec.dbFailed THEN GetOnFailure(DefaultOf(rec.route))
                    ELSE IF found THEN rec.row.value
                    ELSE DefaultOf(rec.route)
       IN  /\ cache' = IF found THEN CacheSet(cache, rec.key, value) ELSE cache
           /\ OpSet(o, AfterGet(rec, value))
    /\ UNCHANGED <<store, storeUp, now, enh, opsStarted, settled, outage>>
    /\ UNCHANGED otherVars

\* the database answers the select of getByCategory
DbSelectCategory(o) ==
    /\ ops[o].pc = "cat_db"
    /\ OpSet(o, [ops[o] EXCEPT !.pc = "cat_resume",
                    !.configs = IF storeUp THEN store ELSE NoConfigs,
                    !.dbFailed = ~storeUp])
    /\ UNCHANGED <<store, storeUp, cache, now, enh, opsStarted, settled, outage>>
    /\ UNCHANGED otherVars

\* configs.filter(config => !config.isSecret) and the response
ListResume(o) ==
    /\ ops[o].pc = "cat_resume"
    /\ LET rec == ops[o]
           rows == {k \in ConfigKeys : /\ rec.configs[k] # NoConfig
                                       /\ rec.configs[k].category = rec.category}
       IN  OpSet(o, [Respond(rec, 200, Undefined) EXCEPT
                 !.listed = {[key |-> k, value |-> rec.configs[k].value] :
                                k \in {r \in rows : ~rec.configs[r].isSecret}}])
    /\ UNCHANGED <<store, storeUp, cache, now, enh, opsStarted, settled, outage>>
    /\ UNCHANGED otherVars

\* the database executes the upsert of ConfigService.set
DbUpsert(o) ==
    /\ ops[o].pc = "set_db"
    /\ LET rec == ops[o]
       IN  IF storeUp
           THEN /\ store' = [store EXCEPT ![rec.key] =
                       Upsert(store[rec.key], rec.value, rec.isSecret,
                              rec.category)]
                /\ settled' = [settled EXCEPT ![rec.key] = Unsettled]
                /\ OpSet(o, [rec EXCEPT !.pc = "set_resume"])
           ELSE /\ UNCHANGED <<store, settled>>
                /\ OpSet(o, [rec EXCEPT !.pc = "set_resume", !.dbFailed = TRUE])
    /\ UNCHANGED <<storeUp, cache, now, enh, opsStarted, outage>>
    /\ UNCHANGED otherVars

\* ConfigService.set after its await: this.cache.set(key, value), or the throw;
\* PUT /config/:key goes on to EnhancedEnv.initialize()
SetResume(o) ==
    /\ ops[o].pc = "set_resume"
    /\ LET rec == ops[o]
       IN  IF rec.dbFailed
           THEN /\ OpSet(o, Respond(rec, 500, Undefined))
                /\ cache' = SetOnFailure(cache, rec.key, rec.value)
                /\ UNCHANGED settled
           ELSE /\ cache' = CacheSet(cache, rec.key, rec.value)
                /\ settled' = [settled EXCEPT ![rec.key] =
                       IF OtherSetter(o, rec.key) THEN Unsettled ELSE rec.value]
                /\ OpSet(o, IF rec.route = "putKey"
                            THEN [rec EXCEPT !.pc = "load_db", !.stage = 2]
                            ELSE Respond(rec, 200, rec.value))
    /\ UNCHANGED <<store, storeUp, now, enh, opsStarted, outage>>
    /\ UNCHANGED otherVars

\* the database answers the select of loadCache
DbSelectAll(o) ==
    /\ ops[o].pc = "load_db"
    /\ OpSet(o, [ops[o] EXCEPT !.pc = "load_resume",
                    !.configs = IF storeUp THEN store ELSE NoConfigs,
                    !.dbFailed = ~storeUp])
    /\ UNCHANGED <<store, storeUp, cache, now, enh, opsStarted, settled, outage>>
    /\ UNCHANGED otherVars

\* loadCache after its await, then what its caller does next: the timer
\* callback ends, refreshCache is followed by EnhancedEnv.initialize(), and
\* initialize() sets the flag and starts the timer if there is none
LoadResume(o) ==
    /\ ops[o].pc = "load_resume"
    /\ LET rec == ops[o]
           rec2 == [rec EXCEPT !.dbFailed = FALSE]
       IN  /\ cache' = IF rec.dbFailed THEN cache
                       ELSE LoadedCache(rec.configs, now)
           /\ outage' = IF rec.dbFailed THEN TRUE ELSE outage
           /\ IF rec.stage = 0
              THEN OpSet(o, Respond(rec2, 0, Undefined)) /\ UNCHANGED enh
              ELSE IF rec.stage = 1
              THEN OpSet(o, [rec2 EXCEPT !.pc = "load_db", !.stage = 2])
                   /\ UNCHANGED enh
              ELSE /\ OpSet(o, Respond(rec2, 200, Undefined))
                   /\ enh' = AfterInitialize(enh, now)
    /\ UNCHANGED <<store, storeUp, now, opsStarted, settled>>
    /\ UNCHANGED otherVars

\* EnhancedEnv.getSync(key): the cached value when initialized and truthy,
\* else the process environment, else the throw
GetSync ==
    /\ \E key \in ConfigKeys :
          LET cached == cache.map[key]
              rec == NewRead("getSync", key)
          IN  clast' =
                 IF enh.initialized /\ Truthy(cached)
                 THEN Respond(rec, 200, cached)
                 ELSE IF Truthy(EnvOf(key))
                 THEN Respond(rec, 200, EnvOf(key))
                 ELSE Respond(rec, 500, Undefined)
    /\ UNCHANGED <<store, storeUp, cache, now, enh, ops, opsStarted, settled, outage>>
    /\ UNCHANGED otherVars

\* time passes
Tick ==
    /\ now < StartTime + MaxTicks * TickMs
    /\ now' = now + TickMs
    /\ clast' = IdleOp
    /\ UNCHANGED <<store, storeUp, cache, enh, ops, opsStarted, settled, outage>>
    /\ UNCHANGED otherVars

\* the database becomes unreachable
StoreFails ==
    /\ storeUp
    /\ storeUp' = FALSE
    /\ clast' = IdleOp
    /\ UNCHANGED <<store, cache, now, enh, ops, opsStarted, settled, outage>>
    /\ UNCHANGED otherVars

\* the database is reachable again
StoreRecovers ==
    /\ ~storeUp
    /\ storeUp' = TRUE
    /\ outage' = FALSE
    /\ clast' = IdleOp
    /\ UNCHANGED <<store, cache, now, enh, ops, opsStarted, settled>>
    /\ UNCHANGED otherVars

\* EnhancedEnv.forceRefresh(): ConfigService.refreshCache()
ForceRefreshBegin(o) ==
    /\ FirstFreeOp(o)
    /\ OpSet(o, [NewOp("forceRefresh", "TRUSTED_ORIGINS") EXCEPT
                    !.pc = "load_db", !.stage = 0])
    /\ opsStarted' = opsStarted + 1
    /\ UNCHANGED <<store, storeUp, cache, now, enh, settled, outage>>
    /\ UNCHANGED otherVars

\* EnhancedEnv.initialize() called again by the running process
InitializeAgain(o) ==
    /\ FirstFreeOp(o)
    /\ enh.initialized
    /\ OpSet(o, [NewOp("initialize", "TRUSTED_ORIGINS") EXCEPT
                    !.pc = "load_db", !.stage = 2])
    /\ opsStarted' = opsStarted + 1
    /\ UNCHANGED <<store, storeUp, cache, now, enh, settled, outage>>
    /\ UNCHANGED otherVars

\* EnhancedEnv.stopAutoRefresh(): clearInterval and the handle set to null;
\* the calls of initialize that are at their await are marked
StopAutoRefresh ==
    /\ enh.initialized
    /\ enh' = IF enh.refreshInterval
              THEN [enh EXCEPT !.refreshInterval = FALSE, !.timers = @ - 1,
                               !.timerDue = 0]
              ELSE enh
    /\ ops' = [o \in OpSlots |->
                 IF ops[o].pc \in {"load_db", "load_resume"} /\ ops[o].stage = 2
                 THEN [ops[o] EXCEPT !.stoppedOver = TRUE]
                 ELSE ops[o]]
    /\ clast' = [IdleOp EXCEPT !.route = "stopAutoRefresh", !.pc = "done"]
    /\ UNCHANGED <<store, storeUp, cache, now, opsStarted, settled, outage>>
    /\ UNCHANGED otherVars

\* rows the store holds before the process starts
SeededConfigs ==
    [k \in ConfigKeys |->
        IF k = "TRUSTED_ORIGINS"
        THEN [value |-> <<"a">>, isSecret |-> FALSE, category |-> "cors",
              rows |-> 1]
        ELSE [value |-> <<"a">>, isSecret |-> TRUE, category |-> "general",
              rows |-> 1]]

InitConfig ==
    /\ hookIdle
    /\ sessions = NoSessions
    /\ vreq = IdleVerify
    /\ odec = NoDecision
    /\ naming = NoNaming
    /\ store \in {NoConfigs, SeededConfigs}
    /\ storeUp = TRUE
    /\ cache = EmptyCache
    /\ now = StartTime
    /\ enh = NoEnv
    /\ ops = [o \in OpSlots |-> IdleOp]
    /\ clast = IdleOp
    /\ opsStarted = 0
    /\ settled = [k \in ConfigKeys |-> Unsettled]
    /\ outage = FALSE

\* the routes and tasks that read, fill and reload the cache
NextCache ==
    \/ \E o \in OpSlots : GetKeyBegin(o)
    \/ \E o \in OpSlots : RefreshBegin(o)
    \/ \E o \in OpSlots : PutPatternsBegin(o)
    \/ \E o \in OpSlots : InitializeBegin(o)
    \/ \E o \in OpSlots : TimerFires(o)
    \/ \E o \in OpSlots : DbSelectKey(o)
    \/ \E o \in OpSlots : GetResume(o)
    \/ \E o \in OpSlots : DbUpsert(o)
    \/ \E o \in OpSlots : SetResume(o)
    \/ \E o \in OpSlots : DbSelectAll(o)
    \/ \E o \in OpSlots : LoadResume(o)
    \/ GetSync
    \/ Tick
    \/ StoreFails
    \/ StoreRecovers

SpecCache == InitConfig /\ [][NextCache]_vars

\* the routes of /config on a running store
NextRoutes ==
    \/ \E o \in OpSlots : GetKeyBegin(o)
    \/ \E o \in OpSlots : ListBegin(o)
    \/ \E o \in OpSlots : PutKeyBegin(o)
    \/ \E o \in OpSlots : DeleteKeyBegin(o)
    \/ \E o \in OpSlots : RefreshBegin(o)
    \/ \E o \in OpSlots : PutPatternsBegin(o)
    \/ \E o \in OpSlots : AddOriginBegin(o)
    \/ \E o \in OpSlots : RemoveOriginBegin(o)
    \/ \E o \in OpSlots : DbSelectKey(o)
    \/ \E o \in OpSlots : GetResume(o)
    \/ \E o \in OpSlots : DbSelectCategory(o)
    \/ \E o \in OpSlots : ListResume(o)
    \/ \E o \in OpSlots : DbUpsert(o)
    \/ \E o \in OpSlots : SetResume(o)
    \/ \E o \in OpSlots : DbSelectAll(o)
    \/ \E o \in OpSlots : LoadResume(o)

SpecRoutes == InitConfig /\ [][NextRoutes]_vars

\* EnhancedEnv: initialize, forceRefresh, stopAutoRefresh and the timer
NextTimer ==
    \/ \E o \in OpSlots : InitializeBegin(o)
    \/ \E o \in OpSlots : InitializeAgain(o)
    \/ \E o \in OpSlots : ForceRefreshBegin(o)
    \/ \E o \in OpSlots : TimerFires(o)
    \/ \E o \in OpSlots : DbSelectAll(o)
    \/ \E o \in OpSlots : LoadResume(o)
    \/ StopAutoRefresh
    \/ Tick
    \/ StoreFails
    \/ StoreRecovers

SpecTimer == InitConfig /\ [][NextTimer]_vars

\* the value another writer of the configuration table commits
OtherValue == <<"w">>

\* another process (a second instance, a migration) commits a value to the
\* configuration table; nothing in this process is told
OtherWriter ==
    /\ storeUp
    /\ \E k \in ConfigKeys :
          /\ store[k].value # OtherValue
          /\ store' = [store EXCEPT ![k] =
                          Upsert(store[k], OtherValue, store[k].isSecret,
                                 IF store[k].rows = 0
                                 THEN "general" ELSE store[k].category)]
    /\ clast' = IdleOp
    /\ UNCHANGED <<storeUp, cache, now, enh, ops, opsStarted, settled, outage>>
    /\ UNCHANGED otherVars

\* the periodic reload of a running process beside another writer
NextReload ==
    \/ \E o \in OpSlots : InitializeBegin(o)
    \/ \E o \in OpSlots : InitializeAgain(o)
    \/ \E o \in OpSlots : TimerFires(o)
    \/ \E o \in OpSlots : DbSelectAll(o)
    \/ \E o \in OpSlots : LoadResume(o)
    \/ OtherWriter
    \/ Tick
    \/ StoreFails
    \/ StoreRecovers

SpecReload == InitConfig /\ [][NextReload]_vars

\* ConfigService.clearCacheKey(key): this.cache.delete(key)
ClearCacheKey ==
    /\ \E key \in ConfigKeys :
          cache' = [cache EXCEPT !.map[key] = Undefined]
    /\ clast' = IdleOp
    /\ UNCHANGED <<store, storeUp, now, enh, ops, opsStarted, settled, outage>>
    /\ UNCHANGED otherVars

\* ConfigService.clearCache(): this.cache.clear(); this.lastCacheUpdate = 0
ClearCache ==
    /\ cache' = EmptyCache
    /\ clast' = IdleOp
    /\ UNCHANGED <<store, storeUp, now, enh, ops, opsStarted, settled, outage>>
    /\ UNCHANGED otherVars

\* every operation of ConfigService
NextStore ==
    \/ \E o \in OpSlots : GetKeyBegin(o)
    \/ \E o \in OpSlots : PutKeyBegin(o)
    \/ \E o \in OpSlots : RefreshBegin(o)
    \/ \E o \in OpSlots : DbSelectKey(o)
    \/ \E o \in OpSlots : GetResume(o)
    \/ \E o \in OpSlots : DbUpsert(o)
    \/ \E o \in OpSlots : SetResume(o)
    \/ \E o \in OpSlots : DbSelectAll(o)
    \/ \E o \in OpSlots : LoadResume(o)
    \/ GetSync
    \/ ClearCacheKey
    \/ ClearCache

SpecStore == InitConfig /\ [][NextStore]_vars

\* ================================================================== claims
\* a read that has just returned
ReadDone == clast.pc = "done" /\ clast.route \in {"getKey", "getSync"}

\* C22: once set(k, v) has returned and no other set of k has come since, a
\* read of k that returns (ConfigService.get behind GET /config/:key, or
\* EnhancedEnv.getSync once initialized) gives v.
C22_ReadOwnWrite ==
    (/\ ReadDone
     /\ clast.expect # Unsettled
     /\ Truthy(clast.expect)
     /\ settled[clast.key] = clast.expect
     /\ clast.route = "getSync" => enh.initialized)
        => clast.result = clast.expect

\* C23: after a reload of the cache has failed and while the store is still
\* down, a read of a key the cache holds returns the cached value, also when
\* the cache is older than its TTL.
C23_CachedSurvivesFailedReload ==
    (/\ ReadDone
     /\ clast.afterFailedLoad
     /\ ~storeUp
     /\ Truthy(clast.hadCached)
     /\ cache.map[clast.key] = clast.hadCached
     /\ clast.route = "getSync" => enh.initialized)
        => clast.result = clast.hadCached

\* C24: the cache changes only by one entry being put, or by being replaced
\* in one step with the complete result of a reload's select: there is no
\* step after which it is cleared or holds only part of that result.
C24_NoPartialCache ==
    [][cache'.map # cache.map =>
          \/ \E k \in ConfigKeys :
                /\ cache'.map[k] # Undefined
                /\ cache'.map = [cache.map EXCEPT ![k] = cache'.map[k]]
          \/ \E o \in OpSlots :
                /\ ops[o].pc = "load_resume"
                /\ ~ops[o].dbFailed
                /\ cache'.map = [k \in ConfigKeys |-> ops[o].configs[k].value]]_vars

\* a reload of two rows has just been applied while a read is in flight
C24_Witness ==
    /\ clast.pc = "done"
    /\ clast.route \in {"timer", "refresh", "initialize"}
    /\ \A k \in ConfigKeys : cache.map[k] = clast.configs[k].value
    /\ \A k \in ConfigKeys : cache.map[k] # Undefined
    /\ cache.lastCacheUpdate = now
    /\ \E o \in OpSlots : ops[o].route = "getKey" /\ ops[o].pc = "get_resume"

\* no request is in flight
Quiescent == \A o \in OpSlots : ops[o].pc = "idle"

\* C29: when a reload is the last of the concurrent operations to finish and
\* a set(k, v) has finished before it, with no later set of k, the cache
\* entry of k after the reload is v.
C29_NoStaleCacheAfterWrite ==
    [][\A o \in OpSlots : \A k \in ConfigKeys :
          (/\ ops[o].pc = "load_resume"
           /\ Quiescent'
           /\ settled[k] # Unsettled)
              => cache'.map[k] = settled[k]]_vars

\* C30: a get that finds the cache stale (loaded once, age >= TTL) and whose
\* select succeeds leaves the cache valid again.
C30_StaleGetReloads ==
    (/\ clast.pc = "done"
     /\ clast.route = "getKey"
     /\ clast.staleAtBegin
     /\ ~clast.dbFailed
     /\ clast.status = 200)
        => IsCacheValid

\* C25: a response of a public read endpoint (GET /config/:key, GET /config,
\* GET /config/category/:category) never carries the value of an entry that
\* is marked isSecret.
C25_SecretsNotPublic ==
    (clast.pc = "done" /\ clast.route \in {"getKey", "listCategory"}) =>
        /\ \A e \in clast.listed : ~clast.configs[e.key].isSecret
        /\ (clast.route = "getKey" /\ clast.status = 200) =>
              IF clast.row # NoConfig
              THEN ~clast.row.isSecret
              ELSE ~(/\ store[clast.key].isSecret
                     /\ store[clast.key].value = clast.result)

\* the Authorization header that carries the signing secret
ValidHeader == <<"Bearer ">> \o AdminSecret

\* C26: a request to a mutating endpoint goes past the middleware only with
\* the bearer token equal to the secret, every other one is answered 401 or
\* 403, and the store changes only in a step of a request that carried it; so
\* does the cache, but for the entry a public read fills in.
C26_MutationNeedsSecret ==
    [][/\ \A o \in OpSlots :
             (ops'[o].pc # "idle" /\ ops'[o].route \in AdminRoutes)
                 => ops'[o].authHeader = ValidHeader
       /\ (/\ clast'.pc = "done"
           /\ clast'.route \in AdminRoutes
           /\ clast'.authHeader # ValidHeader)
              => clast'.status \in {401, 403}
       /\ store' # store =>
             \E o \in OpSlots : /\ ops[o].route \in AdminRoutes
                                /\ ops[o].authHeader = ValidHeader
       /\ cache' # cache =>
             \E o \in OpSlots :
                 \/ /\ ops[o].route \in AdminRoutes
                    /\ ops[o].authHeader = ValidHeader
                 \/ ops[o].pc = "get_resume" /\ ops[o].route = "getKey"]_vars

\* a request with a wrong token has just been refused while the store holds
\* what an admitted request wrote
C26_Witness ==
    /\ clast.pc = "done"
    /\ clast.route = "putKey"
    /\ clast.authHeader = <<"Bearer ", "Bearer ", "secret">>
    /\ clast.status = 403
    /\ \E k \in ConfigKeys : settled[k] # Unsettled /\ store[k].value = settled[k]

\* ============================================================ origin policy
\* Origins and lists are strings of pieces ("https://", ".", "eatzy", ",").
MaxPatterns == 2

\* config ? config.split(',').map(x => x.trim()) : []
ParseList(config) ==
    IF Truthy(config)
    THEN [i \in 1..Len(Split(config)) |-> Trim(Split(config)[i])]
    ELSE <<>>

\* origins.split(',').map(origin => origin.trim()) of the sync getters
ParseListSync(config) ==
    [i \in 1..Len(Split(config)) |-> Trim(Split(config)[i])]

IsScheme(piece) == piece \in {"https://", "http://"}

\* one turn of the loop over allowedPatterns in isOriginAllowed
PatternAllows(origin, pattern) ==
    IF StartsWith(pattern, <<".">>)
    THEN IncludesString(origin, pattern) \/ origin = <<"https://">> \o Tail(pattern)
    ELSE IF pattern # <<>> /\ IsScheme(Head(pattern))
    THEN origin = pattern
    ELSE IncludesString(origin, pattern)

\* isOriginAllowed after its two reads
IsOriginAllowed(origin, trustedOriginsConfig, allowedOriginsConfig) ==
    LET trustedOrigins == ParseList(trustedOriginsConfig)
        allowedPatterns == ParseList(allowedOriginsConfig)
    IN  \/ ListIncludes(trustedOrigins, origin)
        \/ \E i \in 1..Len(allowedPatterns) :
              PatternAllows(origin, allowedPatterns[i])

\* isAllowedDomain of the CORS callback
IsAllowedDomain(origin, patternsConfig) ==
    LET patterns == ParseListSync(patternsConfig)
    IN  \E i \in 1..Len(patterns) :
           IF StartsWith(patterns[i], <<".">>)
           THEN EndsWith(origin, patterns[i])
           ELSE origin = patterns[i]

\* the defaults isOriginAllowed passes to ConfigService.get
DefaultTrustedOrigins ==
    <<"http://", "localhost", ":5173", ",", "http://", "localhost", ":3000",
      ",", "http://", "localhost", ":3001">>

DefaultAllowedPatterns ==
    <<".", "eatsy", ".", "net", ",", ".", "eatzy", ".", "com", ",",
      "https://", "eatsy", ".", "net", ",", "https://", "eatzy", ".", "com">>

\* Origin (or Referer) headers of requests
Origins ==
    {<<"http://", "localhost", ":3000">>,
     <<"https://", "app", ".", "eatzy", ".", "com">>,
     <<"https://", "eatzy", ".", "com">>,
     <<"https://", "evil", ".", "net">>,
     <<"https://", "sub", ".", "example", ".", "com">>,
     <<"https://", "example", ".", "com">>,
     <<"https://", "sub", ".", "example", ".", "com", ".", "evil", ".", "net">>,
     <<"https://", "my", "example", ".", "org">>}

\* patterns an administrator stores
Patterns ==
    {<<".", "example", ".", "com">>,
     <<"https://", "example", ".", "com">>,
     <<"example">>}

\* patterns.join(',') of PUT /config/cors/patterns, and lists written with
\* a blank after the comma
RECURSIVE Join(_, _)
Join(list, sep) ==
    IF list = <<>> THEN <<>>
    ELSE IF Len(list) = 1 THEN list[1]
    ELSE list[1] \o sep \o Join(Tail(list), sep)

PatternLists == UNION {[1..n -> Patterns] : n \in 1..MaxPatterns}

\* values of the ALLOWED_DOMAIN_PATTERNS row (Undefined: there is no row)
StoredPatterns ==
    {Undefined, EmptyValue}
        \cup {Join(l, <<",">>) : l \in PatternLists}
        \cup {Join(l, <<",", " ">>) : l \in PatternLists}

\* values of the TRUSTED_ORIGINS row
StoredOrigins ==
    {Undefined, EmptyValue, <<"https://", "evil", ".", "net">>,
     DefaultTrustedOrigins}

\* what ConfigService.get(key, defaultValue) returns: the stored value, the
\* default when there is no row, and on a failed select what its catch gives
GetValue(stored, defaultValue, failed) ==
    IF failed THEN GetOnFailure(defaultValue)
    ELSE IF stored = Undefined THEN defaultValue
    ELSE stored

\* GET /google/url calls isOriginAllowed(origin): the first get is issued
OriginBegin ==
    /\ odec.pc = "idle"
    /\ \E origin \in Origins, t \in StoredOrigins, p \in StoredPatterns :
          odec' = [NoDecision EXCEPT !.pc = "get_trusted", !.fn = "isOriginAllowed",
                      !.origin = origin, !.trustedStored = t, !.allowedStored = p]
    /\ UNCHANGED hookVars
    /\ UNCHANGED <<sessions, vreq>>
    /\ UNCHANGED <<store, storeUp, cache, now, enh, ops, clast, opsStarted,
                   settled, outage, naming>>

\* the first get returns (the store up or down) and the second is issued
OriginTrustedRead ==
    /\ odec.pc = "get_trusted"
    /\ \E failed \in BOOLEAN :
          odec' = [odec EXCEPT !.pc = "get_patterns", !.trustedFailed = failed,
                      !.trustedOriginsConfig =
                          GetValue(odec.trustedStored, DefaultTrustedOrigins, failed)]
    /\ UNCHANGED hookVars
    /\ UNCHANGED <<sessions, vreq>>
    /\ UNCHANGED <<store, storeUp, cache, now, enh, ops, clast, opsStarted,
                   settled, outage, naming>>

\* the second get returns and the function decides
OriginDecide ==
    /\ odec.pc = "get_patterns"
    /\ \E failed \in BOOLEAN :
          LET patterns == GetValue(odec.allowedStored, DefaultAllowedPatterns, failed)
          IN  odec' = [odec EXCEPT !.pc = "done", !.patternsFailed = failed,
                          !.allowedOriginsConfig = patterns,
                          !.allowed = IsOriginAllowed(odec.origin,
                                          odec.trustedOriginsConfig, patterns)]
    /\ UNCHANGED hookVars
    /\ UNCHANGED <<sessions, vreq>>
    /\ UNCHANGED <<store, storeUp, cache, now, enh, ops, clast, opsStarted,
                   settled, outage, naming>>

\* the CORS callback asks isAllowedDomain(origin); the patterns come from
\* getAllowedDomainPatternsSync: the cached value when truthy, else the default
DomainCheck ==
    /\ odec.pc = "idle"
    /\ \E origin \in Origins, p \in StoredPatterns :
          LET patterns == IF Truthy(p) THEN p ELSE DefaultAllowedPatterns
          IN  odec' = [NoDecision EXCEPT !.pc = "done", !.fn = "isAllowedDomain",
                          !.origin = origin, !.allowedStored = p,
                          !.allowedOriginsConfig = patterns,
                          !.allowed = IsAllowedDomain(origin, patterns)]
    /\ UNCHANGED hookVars
    /\ UNCHANGED <<sessions, vreq>>
    /\ UNCHANGED <<store, storeUp, cache, now, enh, ops, clast, opsStarted,
                   settled, outage, naming>>

InitOrigin ==
    /\ hookIdle
    /\ sessions = NoSessions
    /\ vreq = IdleVerify
    /\ ConfigIdle

NextOrigin ==
    \/ OriginBegin
    \/ OriginTrustedRead
    \/ OriginDecide
    \/ DomainCheck

SpecOrigin == InitOrigin /\ [][NextOrigin]_vars

\* ============================================================ derived names
\* A name is the sequence of its characters, an email the sequence of its
\* pieces (<<"ann", "@", "x.com">>).
MaxNameLen == 4

NameChars == {"A", "L", " ", "\t"}

Names == SeqsUpTo(NameChars, MaxNameLen) \cup {Undefined}

NameEmails == {<<"ann", "@", "x.com">>, <<"lee", "@", "y.org">>}

LegacyNames == {<<>>, <<"A">>, <<"L">>}

\* a || b
Or(a, b) == IF Truthy(a) THEN a ELSE b

\* obj?.field: undefined when the object has no such property
Field(obj, f) == IF f \in DOMAIN obj THEN obj[f] ELSE Undefined

\* s.split(sep) for a separator of one character
RECURSIVE SplitOn(_, _)
SplitOn(s, sep) ==
    IF \A i \in 1..Len(s) : s[i] # sep
    THEN <<s>>
    ELSE LET i == CHOOSE j \in 1..Len(s) :
                      s[j] = sep /\ \A m \in 1..(j - 1) : s[m] # sep
         IN  <<SubSeq(s, 1, i - 1)>> \o SplitOn(SubSeq(s, i + 1, Len(s)), sep)

\* sign-up: nameParts = (name || '').split(' '); nameParts[0] || ''
FirstNameOf(name) == Or(SplitOn(Or(name, <<>>), " ")[1], <<>>)

\* sign-up: nameParts.slice(1).join(' ') || ''
LastNameOf(name) == Or(Join(Tail(SplitOn(Or(name, <<>>), " ")), <<" ">>), <<>>)

\* what checkUserExists returns of the legacy user
ExistsUserData(email, firstname, lastname) ==
    [email |-> email, firstname |-> firstname, lastname |-> lastname]

\* what verifyExistingUser returns of the legacy user it authorized: the
\* email, the roles, the external id and the legacy tokens
VerifyUserData(email) ==
    [email |-> email, roles |-> "roles", external_id |-> "external_id",
     legacy_tokens |-> "legacy_tokens"]

\* `${firstname} ${lastname}`.trim() of the fields of userData
LegacyFullName(userData) ==
    Trim(Or(Field(userData, "firstname"), <<>>) \o <<" ">>
            \o Or(Field(userData, "lastname"), <<>>))

\* sign-in: fullName = `${firstname} ${lastname}`.trim() || email.split('@')[0]
SignInFullName(userData, email) ==
    Or(LegacyFullName(userData), SplitOn(email, "@")[1])

\* social callback: ... || ctx.user?.name || email.split('@')[0]
SocialFullName(userData, name, email) ==
    Or(Or(LegacyFullName(userData), name), SplitOn(email, "@")[1])

\* the sign-up hook derives the legacy first and last name of its new user
SignUpNames ==
    /\ naming.pc = "idle"
    /\ \E name \in Names :
          naming' = [NoNaming EXCEPT !.pc = "done", !.fn = "signUp",
                        !.name = name,
                        !.firstname = FirstNameOf(name),
                        !.lastname = LastNameOf(name)]
    /\ UNCHANGED <<legacy, users, accounts, nextId, req, last, started,
                   pwChanges, lastSignUp, lastSignIn, crashes, sessions, vreq,
                   store, storeUp, cache, now, enh, ops, clast, opsStarted,
                   settled, outage, odec>>

\* the sign-in hook names the principal it creates: the legacy user exists
\* (checkUserExists), is authorized (verifyExistingUser), and the name is
\* taken from the user data of the authorization
SignInName ==
    /\ naming.pc = "idle"
    /\ \E email \in NameEmails, firstname \in LegacyNames, lastname \in LegacyNames :
          LET existsResult == ExistsUserData(email, firstname, lastname)
              verifyResult == VerifyUserData(existsResult.email)
          IN  naming' = [NoNaming EXCEPT !.pc = "done", !.fn = "signIn",
                            !.email = email,
                            !.legacyFirst = existsResult.firstname,
                            !.legacyLast = existsResult.lastname,
                            !.fullName = SignInFullName(verifyResult, email)]
    /\ UNCHANGED <<legacy, users, accounts, nextId, req, last, started,
                   pwChanges, lastSignUp, lastSignIn, crashes, sessions, vreq,
                   store, storeUp, cache, now, enh, ops, clast, opsStarted,
                   settled, outage, odec>>

\* the callback hook names the principal of a social login from the user
\* data checkUserExists returned
SocialName ==
    /\ naming.pc = "idle"
    /\ \E email \in NameEmails, firstname \in LegacyNames, lastname \in LegacyNames,
          name \in {Undefined, <<"A", " ", "L">>} :
          LET existsResult == ExistsUserData(email, firstname, lastname)
          IN  naming' = [NoNaming EXCEPT !.pc = "done", !.fn = "callback",
                            !.email = email, !.name = name,
                            !.legacyFirst = existsResult.firstname,
                            !.legacyLast = existsResult.lastname,
                            !.fullName = SocialFullName(existsResult, name, email)]
    /\ UNCHANGED <<legacy, users, accounts, nextId, req, last, started,
                   pwChanges, lastSignUp, lastSignIn, crashes, sessions, vreq,
                   store, storeUp, cache, now, enh, ops, clast, opsStarted,
                   settled, outage, odec>>

NextNames ==
    \/ SignUpNames
    \/ SignInName
    \/ SocialName

SpecNames == InitOrigin /\ [][NextNames]_vars

\* a decision of isOriginAllowed has been made
Decided == odec.pc = "done" /\ odec.fn = "isOriginAllowed"

\* C27: isOriginAllowed allows an origin exactly when it is a member of the
\* trusted list, or a pattern that starts with '.' is a suffix of it, or a
\* pattern that starts with a scheme equals it, or another pattern is a
\* substring of it.
C27_OriginRules ==
    Decided =>
        LET trusted == ParseList(odec.trustedOriginsConfig)
            patterns == ParseList(odec.allowedOriginsConfig)
        IN  odec.allowed <=>
               \/ ListIncludes(trusted, odec.origin)
               \/ \E i \in 1..Len(patterns) :
                     IF StartsWith(patterns[i], <<".">>)
                     THEN EndsWith(odec.origin, patterns[i])
                     ELSE IF patterns[i] # <<>> /\ IsScheme(Head(patterns[i]))
                     THEN odec.origin = patterns[i]
                     ELSE IncludesString(odec.origin, patterns[i])

\* C28: when both reads of the store fail, isOriginAllowed decides on the
\* fixed lists, whatever the store holds: the default localhost origins and
\* the origins of the trusted domain are allowed, the others are refused.
C28_FallbackOnStoreFailure ==
    (Decided /\ odec.trustedFailed /\ odec.patternsFailed) =>
        (odec.allowed <=>
            odec.origin \in {<<"http://", "localhost", ":3000">>,
                             <<"https://", "app", ".", "eatzy", ".", "com">>,
                             <<"https://", "eatzy", ".", "com">>})

\* with the store down an origin of the trusted domain has been allowed
\* although the stored lists would not allow it
C28_Witness ==
    /\ Decided
    /\ odec.trustedFailed
    /\ odec.patternsFailed
    /\ odec.origin = <<"https://", "app", ".", "eatzy", ".", "com">>
    /\ odec.allowed
    /\ odec.trustedStored = EmptyValue
    /\ odec.allowedStored = <<".", "example", ".", "com">>
    /\ ~IsOriginAllowed(odec.origin, odec.trustedStored, odec.allowedStored)

\* C21: Verify of the token that a successful sign-up or sign-in returned
\* answers valid with the user of that session, when the session is live,
\* stayed as it was during the request and no lookup failed.
C21_IssuedTokenVerifies ==
    (Settled /\ vreq.issuedFor \in SessionKeys /\ Live(vreq.issuedFor)) =>
        /\ vreq.response.valid
        /\ vreq.response.user = SessionDataOf(vreq.issuedFor).user
        /\ vreq.response.session = SessionDataOf(vreq.issuedFor).session

\* the issued token had an escape, and another live session is keyed by the
\* escaped form itself
C21_Witness ==
    /\ Settled
    /\ vreq.issuedFor = <<"%">>
    /\ vreq.token = <<"%", "2", "5">>
    /\ Live(<<"%">>)
    /\ Live(<<"%", "2", "5">>)
    /\ vreq.response.valid
    /\ vreq.response.user.id = 1

\* C31: a get that misses the cache and whose select succeeds returns the
\* stored value and puts it in the cache when there is a row, returns the
\* caller's default when there is no row, and throws when there is neither
\* row nor default (the throw reaches the catch of GET /config/:key, which
\* answers 500; 404 is the route's answer to a returned undefined).
C31_MissLooksUpOneKey ==
    (clast.pc = "done" /\ clast.missed /\ ~clast.dbFailed) =>
        /\ (clast.route = "getKey" /\ clast.row # NoConfig) =>
              /\ clast.status = 200
              /\ clast.result = clast.row.value
              /\ cache.map[clast.key] = clast.row.value
        /\ (clast.route = "addOrigin" /\ clast.row = NoConfig
                /\ clast.status = 200) =>
              clast.value = <<clast.origin>>
        /\ (clast.route = "getKey" /\ clast.row = NoConfig) =>
              clast.status = 500

\* C33: at most one refresh timer is active; a step of stopAutoRefresh
\* leaves none; and a call of initialize that was at its await when
\* stopAutoRefresh ran does not start one afterwards.
C33_OneTimerStoppable ==
    [][/\ enh'.timers <= 1
       /\ (enh.refreshInterval /\ ~enh'.refreshInterval) => enh'.timers = 0
       /\ \A o \in OpSlots :
             (ops[o].stoppedOver /\ ops[o].pc = "load_resume")
                 => enh'.timers <= enh.timers]_vars

\* C33 (amended): at most one refresh timer is active, and a step of
\* stopAutoRefresh leaves none.
C33_OneTimerStopLeavesNone ==
    [][/\ enh'.timers <= 1
       /\ (enh.refreshInterval /\ ~enh'.refreshInterval) => enh'.timers = 0]_vars

\* stopAutoRefresh has just cleared the timer while a call of initialize is
\* at its await
C33_Witness ==
    /\ clast.route = "stopAutoRefresh"
    /\ enh.initialized
    /\ enh.timers = 0
    /\ ~enh.refreshInterval
    /\ \E o \in OpSlots : ops[o].stoppedOver

C34_OnlySetWritesStore ==
    [][/\ store' # store =>
             \E o \in OpSlots :
                /\ ops[o].pc = "set_db"
                /\ ops'[o].pc = "set_resume"
                /\ \A k \in ConfigKeys \ {ops[o].key} : store'[k] = store[k]
       /\ \A k \in ConfigKeys : store'[k].rows <= 1]_vars

\* every request in flight has upserted the same key, and the cache has
\* been cleared
C34_Witness ==
    /\ \A o \in OpSlots :
          /\ ops[o].pc = "set_resume"
          /\ ops[o].key = "TRUSTED_ORIGINS"
    /\ store["TRUSTED_ORIGINS"].rows = 1
    /\ cache = EmptyCache

\* C35: when the store write of a set fails, the request that called it
\* ends with the error (status 500) and the cache holds for the key what it
\* held before.
C35_FailedSetKeepsCache ==
    [][\A o \in OpSlots :
          (/\ ops[o].pc = "set_resume"
           /\ ops[o].dbFailed
           /\ ops'[o].pc # "set_resume")
              => /\ clast'.route = ops[o].route
                 /\ clast'.status = 500
                 /\ cache'.map[ops[o].key] = cache.map[ops[o].key]]_vars

\* a set has failed while the cache held another value for its key
C35_Witness ==
    /\ clast.pc = "done"
    /\ clast.route = "putPatterns"
    /\ clast.dbFailed
    /\ clast.status = 500
    /\ Truthy(cache.map[clast.key])
    /\ cache.map[clast.key] # clast.value

\* C36: the display name of the principal a sign-in creates is the legacy
\* first and last name joined, and the local part of the email only when
\* both legacy name fields are empty.
C36_NameFromLegacy ==
    (naming.pc = "done" /\ naming.fn = "signIn") =>
        naming.fullName =
            IF naming.legacyFirst = <<>> /\ naming.legacyLast = <<>>
            THEN SplitOn(naming.email, "@")[1]
            ELSE Trim(naming.legacyFirst \o <<" ">> \o naming.legacyLast)

\* the part of a name before its first run of white space
BeforeWhiteSpace(s) ==
    IF \A i \in 1..Len(s) : s[i] \notin WhiteSpace
    THEN s
    ELSE LET i == CHOOSE j \in 1..Len(s) :
                      /\ s[j] \in WhiteSpace
                      /\ \A m \in 1..(j - 1) : s[m] \notin WhiteSpace
         IN  SubSeq(s, 1, i - 1)

\* the remainder of a name after its first run of white space
AfterWhiteSpace(s) ==
    TrimStart(SubSeq(s, Len(BeforeWhiteSpace(s)) + 1, Len(s)))

\* C37: sign-up splits the name on its first run of white space: the first
\* name is the part before it, the last name the whole remainder without
\* the separating white space, empty when the name has no white space.
C37_SplitOnWhiteSpace ==
    (naming.pc = "done" /\ naming.fn = "signUp" /\ naming.name # Undefined) =>
        /\ naming.firstname = BeforeWhiteSpace(naming.name)
        /\ naming.lastname = AfterWhiteSpace(naming.name)

\* the same for names whose white space is single blanks
SplitOnSingleBlank ==
    (/\ naming.pc = "done" /\ naming.fn = "signUp" /\ naming.name # Undefined
     /\ \A i \in 1..Len(naming.name) :
           /\ naming.name[i] # "\t"
           /\ (naming.name[i] = " " /\ i < Len(naming.name))
                 => naming.name[i + 1] # " ") =>
        /\ naming.firstname = BeforeWhiteSpace(naming.name)
        /\ naming.lastname = AfterWhiteSpace(naming.name)

\* no item occurs twice in a list
NoDuplicate(list) ==
    \A i, j \in 1..Len(list) : list[i] = list[j] => i = j

\* C38: when two POST /config/cors/origins requests with different origins
\* have both written the store, each about to answer success, the stored
\* TRUSTED_ORIGINS holds both origins; and the stored list never holds an
\* origin twice.
C38_NoLostOrigin ==
    /\ \A o, q \in OpSlots :
          (/\ o # q
           /\ ops[o].route = "addOrigin" /\ ops[q].route = "addOrigin"
           /\ ops[o].pc = "set_resume" /\ ops[q].pc = "set_resume"
           /\ ~ops[o].dbFailed /\ ~ops[q].dbFailed
           /\ ops[o].origin # ops[q].origin)
              => /\ ListIncludes(store["TRUSTED_ORIGINS"].value, ops[o].origin)
                 /\ ListIncludes(store["TRUSTED_ORIGINS"].value, ops[q].origin)
    /\ store["TRUSTED_ORIGINS"].rows > 0
          => NoDuplicate(store["TRUSTED_ORIGINS"].value)

\* the stored list of origins never holds an origin twice
NoDuplicateOrigins ==
    store["TRUSTED_ORIGINS"].rows > 0
        => NoDuplicate(store["TRUSTED_ORIGINS"].value)

\* C39: a GET /config/:key that begins after a DELETE /config/:key of the
\* key has succeeded, with no other write of the key since, answers 404
\* 'Configuration not found'.
C39_DeletedKeyNotFound ==
    (/\ clast.pc = "done"
     /\ clast.route = "getKey"
     /\ clast.expect = EmptyValue
     /\ store[clast.key].category = "deleted")
        => clast.status = 404

====
